---- MODULE Spec2Model ----
(***************************************************************************)
(* Article lifecycle pipeline of semi-weekly: the SQLite store             *)
(* (articles, reviews, llm_results), the sync/upsert stage, the content    *)
(* backfill stage, the LLM classification stage (src/main.py) and the web  *)
(* review handlers save/approve/delete (src/web_review.py).                *)
(*                                                                         *)
(* Text values are sequences of one-character strings; a CJK character is  *)
(* written as one element named by its pinyin ("she","ji" for the two      *)
(* characters of the category 'design').  SQL NULL / Python None is the    *)
(* distinguished value NULL.  Timestamps are ticks of a logical clock;     *)
(* 0 is the NULL timestamp.  URLs and model names are opaque tokens.       *)
(***************************************************************************)
EXTENDS Integers, Sequences, FiniteSets, TLC

VARIABLES articles, reviews, llm_results, ignored_urls, clock,
          fetch_run, llm_run, retry, last

vars == <<articles, reviews, llm_results, ignored_urls, clock,
          fetch_run, llm_run, retry, last>>

----------------------------------------------------------------------------
(* Values *)

NULL == <<"<NULL>">>
NullTs == 0

Digits == {"0", "1", "2", "3", "4", "5", "6", "7", "8", "9"}

DigitVal(c) ==
  CASE c = "0" -> 0 [] c = "1" -> 1 [] c = "2" -> 2 [] c = "3" -> 3
    [] c = "4" -> 4 [] c = "5" -> 5 [] c = "6" -> 6 [] c = "7" -> 7
    [] c = "8" -> 8 [] c = "9" -> 9

DigitChar(n) ==
  CASE n = 0 -> "0" [] n = 1 -> "1" [] n = 2 -> "2" [] n = 3 -> "3"
    [] n = 4 -> "4" [] n = 5 -> "5" [] n = 6 -> "6" [] n = 7 -> "7"
    [] n = 8 -> "8" [] n = 9 -> "9"

\* the no-break space U+00A0
NBSP == "nbsp"

\* the characters str.strip() and str.split() take for whitespace
Whitespace == {" ", "\t", "\n", NBSP}

\* str.strip(): drop leading and trailing whitespace
RECURSIVE LStrip(_)
LStrip(s) ==
  IF s # <<>> /\ Head(s) \in Whitespace THEN LStrip(Tail(s)) ELSE s

RECURSIVE RStrip(_)
RStrip(s) ==
  IF s # <<>> /\ s[Len(s)] \in Whitespace
    THEN RStrip(SubSeq(s, 1, Len(s) - 1)) ELSE s

Strip(s) == RStrip(LStrip(s))

\* the element of a set of one element
TheOne(S) == CHOOSE x \in S : TRUE

\* Python truthiness of an Optional[str] / SQLite value used with `or`
Truthy(v) == v # NULL /\ v # <<>>

\* SQL COALESCE(a, b)
Coalesce(a, b) == IF a # NULL THEN a ELSE b

\* SQL COALESCE on timestamp columns
CoalesceTs(a, b) == IF a # NullTs THEN a ELSE b

Max(S) == CHOOSE x \in S : \A y \in S : y <= x

----------------------------------------------------------------------------
(* main.CATEGORY_OPTIONS / report.CATEGORY_OPTIONS *)

CAT_EDA == <<"e", "d", "a", "/", "i", "p">>
CAT_DESIGN == <<"she", "ji">>
CAT_MANUF == <<"zhi", "zao">>
CAT_EQUIP == <<"she", "bei">>
CAT_MATERIAL == <<"cai", "liao">>
CAT_PACKAGING == <<"feng", "zhuang">>
CAT_IDM == <<"I", "D", "M">>
CAT_OTHER == <<"qi", "ta">>

CATEGORY_OPTIONS ==
  {CAT_EDA, CAT_DESIGN, CAT_MANUF, CAT_EQUIP, CAT_MATERIAL, CAT_PACKAGING,
   CAT_IDM, CAT_OTHER}

REVIEW_STATUS_PENDING == "pending"
REVIEW_STATUS_REVIEWED == "reviewed"

----------------------------------------------------------------------------
(* normalize_published_date *)

DateSeps == {"-", "/"}

\* one way the pattern (\d{4}) sepA (\d{1,2}) sepB (\d{1,2}) [endc] can lie
\* on s from position i, with ml month digits and dl day digits
DateFits(s, i, ml, dl, sepA, sepB, endc) ==
  LET pm == i + 5
      ps == pm + ml
      pd == ps + 1
      pe == pd + dl
      endpos == IF endc = {} THEN pe - 1 ELSE pe
  IN /\ endpos <= Len(s)
     /\ \A k \in i..(i + 3) : s[k] \in Digits
     /\ s[i + 4] \in sepA
     /\ \A k \in pm..(ps - 1) : s[k] \in Digits
     /\ s[ps] \in sepB
     /\ \A k \in pd..(pe - 1) : s[k] \in Digits
     /\ (endc = {} \/ s[pe] \in endc)

NumAt(s, from, n) ==
  IF n = 1 THEN DigitVal(s[from])
  ELSE IF n = 2 THEN 10 * DigitVal(s[from]) + DigitVal(s[from + 1])
  ELSE 1000 * DigitVal(s[from]) + 100 * DigitVal(s[from + 1])
       + 10 * DigitVal(s[from + 2]) + DigitVal(s[from + 3])

\* the groups (y, m, d) of the regex match at i; greedy quantifiers try two
\* digits before one, the month before the day
DateGroupsAt(s, i, sepA, sepB, endc) ==
  LET ml == IF DateFits(s, i, 2, 2, sepA, sepB, endc)
               \/ DateFits(s, i, 2, 1, sepA, sepB, endc) THEN 2 ELSE 1
      dl == IF DateFits(s, i, ml, 2, sepA, sepB, endc) THEN 2 ELSE 1
  IN <<NumAt(s, i, 4), NumAt(s, i + 5, ml), NumAt(s, i + 6 + ml, dl)>>

DateMatchesAt(s, i, sepA, sepB, endc) ==
  \E ml \in {1, 2}, dl \in {1, 2} : DateFits(s, i, ml, dl, sepA, sepB, endc)

\* re.search: the leftmost match, <<>> when there is none
DateSearch(s, sepA, sepB, endc) ==
  LET hits == {i \in 1..Len(s) : DateMatchesAt(s, i, sepA, sepB, endc)}
  IN IF hits = {} THEN <<>>
     ELSE DateGroupsAt(s, CHOOSE i \in hits : \A j \in hits : i <= j,
                       sepA, sepB, endc)

Pad2(n) == <<DigitChar((n \div 10) % 10), DigitChar(n % 10)>>

Pad4(n) ==
  <<DigitChar((n \div 1000) % 10), DigitChar((n \div 100) % 10),
    DigitChar((n \div 10) % 10), DigitChar(n % 10)>>

\* f"{y:04d}-{m:02d}-{d:02d}"
FormatDate(g) == Pad4(g[1]) \o <<"-">> \o Pad2(g[2]) \o <<"-">> \o Pad2(g[3])

_DATE_RE(s) == DateSearch(s, DateSeps, DateSeps, {})

_DATE_ZH_RE(s) == DateSearch(s, {"nian"}, {"yue"}, {"ri"})

Prefix(s, n) == SubSeq(s, 1, IF Len(s) < n THEN Len(s) ELSE n)

normalize_published_date(value) ==
  IF ~Truthy(value) THEN NULL
  ELSE LET text == Strip(value)
           fast == IF Len(text) >= 10 /\ text[5] \in DateSeps
                      /\ text[8] \in DateSeps
                     THEN _DATE_RE(Prefix(text, 10)) ELSE <<>>
       IN IF text = <<>> THEN NULL
          ELSE IF fast # <<>> THEN FormatDate(fast)
          ELSE IF _DATE_RE(text) # <<>> THEN FormatDate(_DATE_RE(text))
          ELSE IF _DATE_ZH_RE(text) # <<>> THEN FormatDate(_DATE_ZH_RE(text))
          ELSE NULL

----------------------------------------------------------------------------
(* The store: ensure_db_schema *)

\* the tables ensure_db_schema creates
SchemaTables == {"articles", "llm_results", "reviews"}

TableExists(t) == t \in SchemaTables

\* the rows of article_links (from_article_id, to_article_id): no statement
\* of the program creates the table or inserts into it
ArticleLinkRows == {}

\* PRAGMA foreign_keys = ON, and both child tables declare ON DELETE CASCADE
ForeignKeysOn == TRUE

NoRow == 0

EmptyTable == [i \in {} |-> NULL]

\* SELECT id FROM articles WHERE url = ? (url is UNIQUE)
ArticleIdByUrl(arts, url) ==
  IF \E i \in DOMAIN arts : arts[i].url = url
    THEN CHOOSE i \in DOMAIN arts : arts[i].url = url
    ELSE NoRow

\* INTEGER PRIMARY KEY without AUTOINCREMENT: one more than the largest rowid
NextRowId(arts) == IF DOMAIN arts = {} THEN 1 ELSE Max(DOMAIN arts) + 1

\* DELETE FROM articles WHERE id = ?, with the cascades of the child tables
Restrict(f, S) == [i \in (DOMAIN f) \cap S |-> f[i]]

DeleteArticleRow(db, id) ==
  LET keep == (DOMAIN db.articles) \ {id}
  IN [articles |-> Restrict(db.articles, keep),
      reviews |-> IF ForeignKeysOn THEN Restrict(db.reviews, keep)
                  ELSE db.reviews,
      llm_results |-> IF ForeignKeysOn THEN Restrict(db.llm_results, keep)
                      ELSE db.llm_results]

\* faulty variant: every statement is committed as it is executed
WithConnAutocommit(before, attempted, raised) == attempted

\* with conn: the statements of the block are one transaction, committed
\* when the block ends and rolled back when a statement raises
WithConn(before, attempted, raised) == IF raised THEN before ELSE attempted

\* get_pending_review_total
get_pending_review_total(revs) ==
  Cardinality({i \in DOMAIN revs :
                 revs[i].review_status = REVIEW_STATUS_PENDING})

----------------------------------------------------------------------------
(* upsert_article and cmd_sync *)

D_ISO == <<"2", "0", "2", "6", "-", "0", "1", "-", "0", "5">>
D_SLASH == <<"2", "0", "2", "6", "/", "1", "/", "7">>
D_BAD == <<"n", "/", "a">>

\* a raw date of the accepted layout that names no day of the calendar
D_NOCAL == <<"2", "0", "2", "6", "/", "2", "/", "3", "0">>

\* the raw date strings extract_date finds on the list page (None when the
\* card shows no date)
RawDates == {NULL, D_ISO, D_SLASH, D_BAD}

\* the raw dates of all sync passes
ScrapedDates == RawDates \cup {D_NOCAL}

\* faulty variant: the conflict update takes the new value as it is
UpsertPublishedDateNoCoalesce(excluded, old) == excluded

\* ON CONFLICT(url) DO UPDATE SET published_date =
\*   COALESCE(excluded.published_date, articles.published_date)
UpsertPublishedDate(excluded, old) == Coalesce(excluded, old)

\* faulty variant: the test is inverted
IsNewInverted(existing) == existing # NoRow

\* faulty variant: existing is looked up after the insert, so it is never None
IsNewAfterUpsert(existing) == FALSE

\* is_new = existing is None
IsNew(existing) == existing = NoRow

NewArticleRow(item, published_date, now) ==
  [source |-> "EET-China", url |-> item.url, title |-> item.title,
   date_raw |-> item.date, published_date |-> published_date,
   author |-> NULL, content |-> NULL, content_fetched_at |-> NullTs,
   created_at |-> now, updated_at |-> now, last_seen_at |-> now]

\* faulty variant: INSERT OR REPLACE, the conflicting row is written afresh
ConflictReplaceRow(row, item, published_date, now) ==
  NewArticleRow(item, published_date, now)

ConflictUpdateRow(row, item, published_date, now) ==
  [row EXCEPT !.title = item.title,
              !.date_raw = item.date,
              !.published_date = UpsertPublishedDate(published_date, @),
              !.updated_at = now,
              !.last_seen_at = now]

NewReviewRow(now) ==
  [review_status |-> REVIEW_STATUS_PENDING, user_title |-> NULL,
   user_category |-> NULL, user_summary_zh |-> NULL, user_notes |-> NULL,
   reviewed_at |-> NullTs, updated_at |-> now]

\* faulty variant: INSERT OR REPLACE, an existing review is reset
InsertOrReplaceReview(revs, article_id, now) ==
  [i \in DOMAIN revs \cup {article_id} |->
     IF i = article_id THEN NewReviewRow(now) ELSE revs[i]]

\* faulty variant: no review row is inserted with the article
SkipReviewInsert(revs, article_id, now) == revs

\* INSERT OR IGNORE INTO reviews (article_id, review_status, updated_at)
InsertOrIgnoreReview(revs, article_id, now) ==
  IF article_id \in DOMAIN revs THEN revs
  ELSE revs @@ (article_id :> NewReviewRow(now))

\* normalize_published_date over the raw dates the model scrapes
NormalizedDate == [d \in ScrapedDates |-> normalize_published_date(d)]

\* upsert_article: the store after the upsert, the row id and is_new
upsert_article(db, item, now) ==
  LET existing == ArticleIdByUrl(db.articles, item.url)
      published_date == NormalizedDate[item.date]
      article_id == IF existing = NoRow THEN NextRowId(db.articles)
                    ELSE existing
      arts == IF existing = NoRow
                THEN db.articles
                     @@ (article_id :> NewArticleRow(item, published_date, now))
                ELSE [db.articles EXCEPT ![existing] =
                        ConflictUpdateRow(@, item, published_date, now)]
  IN [db |-> [db EXCEPT !.articles = arts,
                        !.reviews = InsertOrIgnoreReview(db.reviews,
                                                         article_id, now)],
      article_id |-> article_id,
      is_new |-> IsNew(existing)]

\* the loop of cmd_sync over the scraped items, inside one transaction
RECURSIVE UpsertLoop(_, _, _, _, _)
UpsertLoop(db, items, now, new_count, updated_count) ==
  IF items = <<>>
    THEN [db |-> db, new_count |-> new_count, updated_count |-> updated_count]
    ELSE LET r == upsert_article(db, Head(items), now)
         IN UpsertLoop(r.db, Tail(items), now,
                       IF r.is_new THEN new_count + 1 ELSE new_count,
                       IF r.is_new THEN updated_count ELSE updated_count + 1)

\* the with-block of cmd_sync when the upsert of item fail_at raises (a
\* locked or failing database): the items before it have been upserted
cmd_sync_failing(db, items, now, fail_at) ==
  WithConn(db, UpsertLoop(db, SubSeq(items, 1, fail_at - 1), now, 0, 0).db,
           TRUE)

----------------------------------------------------------------------------
(* web_review: save_item, approve_item, delete_item *)

\* faulty variant: the category is stripped and stored without the check
CoerceCategoryStripOnly(user_category) == Strip(user_category)

\* category = user_category.strip(); if category not in CATEGORY_OPTIONS:
\*   category = fallback
CoerceCategory(user_category) ==
  IF Strip(user_category) \in CATEGORY_OPTIONS THEN Strip(user_category)
  ELSE CAT_OTHER

\* faulty variant: saving also puts the review back to pending
SaveRowResetsStatus(row, form, now) ==
  [row EXCEPT !.user_title = Strip(form.user_title),
              !.user_category = CoerceCategory(form.user_category),
              !.user_summary_zh = Strip(form.user_summary_zh),
              !.user_notes = Strip(form.user_notes),
              !.review_status = REVIEW_STATUS_PENDING,
              !.reviewed_at = NullTs,
              !.updated_at = now]

\* UPDATE reviews SET user_title, user_category, user_summary_zh, user_notes,
\*   updated_at
SaveRow(row, form, now) ==
  [row EXCEPT !.user_title = Strip(form.user_title),
              !.user_category = CoerceCategory(form.user_category),
              !.user_summary_zh = Strip(form.user_summary_zh),
              !.user_notes = Strip(form.user_notes),
              !.updated_at = now]

\* faulty variant: reviewed_at = ?, every approval stamps the time again
ApproveReviewedAtOverwrite(old, now) == now

\* reviewed_at = COALESCE(reviewed_at, ?)
ApproveReviewedAt(old, now) == CoalesceTs(old, now)

\* UPDATE reviews SET review_status = 'reviewed', reviewed_at, updated_at
ApproveRow(row, now) ==
  [row EXCEPT !.review_status = REVIEW_STATUS_REVIEWED,
              !.reviewed_at = ApproveReviewedAt(@, now),
              !.updated_at = now]

\* UPDATE ... WHERE article_id = ?: no row, no change
UpdateReview(revs, item_id, row) ==
  IF item_id \in DOMAIN revs THEN [revs EXCEPT ![item_id] = row] ELSE revs

\* the transaction of save_item
save_item(revs, item_id, action, form, now) ==
  LET saved == IF item_id \in DOMAIN revs
                 THEN UpdateReview(revs, item_id,
                                   SaveRow(revs[item_id], form, now))
                 ELSE revs
  IN IF action = "save_approve" /\ item_id \in DOMAIN saved
       THEN UpdateReview(saved, item_id, ApproveRow(saved[item_id], now))
       ELSE saved

\* the with-block of save_item when its statement fail_at raises: the first
\* UPDATE has been executed when the second one (of save_approve) fails
save_item_failing(revs, item_id, action, form, now, fail_at) ==
  WithConn(revs,
           IF fail_at = 1 THEN revs ELSE save_item(revs, item_id, "save",
                                                   form, now),
           TRUE)

\* the with-block of approve_item when its UPDATE raises
approve_item_failing(revs, item_id, now) == WithConn(revs, revs, TRUE)

\* the transaction of approve_item
approve_item(revs, item_id, now) ==
  IF item_id \in DOMAIN revs
    THEN UpdateReview(revs, item_id, ApproveRow(revs[item_id], now))
    ELSE revs

\* the transaction of delete_item: the store and ignore-list it commits, and
\* whether a statement raised (the with-block then rolls everything back)
delete_item(db, ignored, item_id) ==
  LET found == item_id \in DOMAIN db.articles
      raises == found /\ ~TableExists("ignored_urls")
  IN IF raises
       THEN [db |-> WithConn(db, db, TRUE),
             ignored_urls |-> WithConn(ignored, ignored, TRUE),
             outcome |-> "error"]
       ELSE [db |-> DeleteArticleRow(db, item_id),
             ignored_urls |-> IF found
                                THEN ignored \cup {db.articles[item_id].url}
                                ELSE ignored,
             outcome |-> "ok"]

----------------------------------------------------------------------------
(* Ordering of the stage queries *)

CharRank(c) == IF c = "-" THEN 0 ELSE 1 + DigitVal(c)

\* SQLite BINARY collation on the text of published_date
RECURSIVE TextLess(_, _)
TextLess(a, b) ==
  IF b = <<>> THEN FALSE
  ELSE IF a = <<>> THEN TRUE
  ELSE IF Head(a) = Head(b) THEN TextLess(Tail(a), Tail(b))
  ELSE CharRank(Head(a)) < CharRank(Head(b))

\* COALESCE(published_date, '')
DateKey(row) == IF row.published_date = NULL THEN <<>> ELSE row.published_date

\* faulty variant: rows of one date come in ascending id
OrderedBeforeIdAsc(arts, i, j) ==
  \/ TextLess(DateKey(arts[j]), DateKey(arts[i]))
  \/ DateKey(arts[i]) = DateKey(arts[j]) /\ i < j

\* ORDER BY COALESCE(published_date, '') DESC, id DESC: i comes before j
OrderedBefore(arts, i, j) ==
  \/ TextLess(DateKey(arts[j]), DateKey(arts[i]))
  \/ DateKey(arts[i]) = DateKey(arts[j]) /\ i > j

\* the ids of S in query order
RECURSIVE OrderedIds(_, _)
OrderedIds(arts, S) ==
  IF S = {} THEN <<>>
  ELSE LET first == CHOOSE i \in S :
                      \A j \in S \ {i} : OrderedBefore(arts, i, j)
       IN <<first>> \o OrderedIds(arts, S \ {first})

\* LIMIT ?
Limit(seq, n) == SubSeq(seq, 1, IF Len(seq) < n THEN Len(seq) ELSE n)

----------------------------------------------------------------------------
(* cmd_fetch: content backfill *)

\* WHERE content IS NULL OR content = ''
FetchEligible(arts) ==
  {i \in DOMAIN arts : arts[i].content = NULL \/ arts[i].content = <<>>}

\* the NewsItem list cmd_fetch builds from the selected rows (the raw date it
\* also carries is never read again)
FetchRows(arts, limit) ==
  LET ids == Limit(OrderedIds(arts, FetchEligible(arts)), limit)
  IN [k \in 1..Len(ids) |->
        [title |-> arts[ids[k]].title, url |-> arts[ids[k]].url]]

\* faulty variant: the extracted title is stored whatever it is
FetchTitleAlways(extracted, item_title) == extracted

\* title=title or item.title
FetchTitle(extracted, item_title) ==
  IF Truthy(extracted) THEN extracted ELSE item_title

FETCH_FAILED == [kind |-> "failed"]

\* faulty variant: a failed fetch is stored as an empty page
fetch_details_blank(item, page) ==
  IF page = FETCH_FAILED
    THEN <<[title |-> item.title, url |-> item.url, author |-> NULL,
            content |-> <<>>]>>
  ELSE <<[title |-> FetchTitle(page.title, item.title), url |-> item.url,
          author |-> page.author, content |-> page.content]>>

\* fetch_details for one item: no NewsContent when the page load or the
\* extraction raised, else one NewsContent
fetch_details(item, page) ==
  IF page = FETCH_FAILED THEN <<>>
  ELSE <<[title |-> FetchTitle(page.title, item.title), url |-> item.url,
          author |-> page.author, content |-> page.content]>>

RECURSIVE FetchAll(_, _)
FetchAll(items, pages) ==
  IF items = <<>> THEN <<>>
  ELSE fetch_details(Head(items), Head(pages))
       \o FetchAll(Tail(items), Tail(pages))

\* UPDATE articles SET title, author, content, content_fetched_at, updated_at
\*   WHERE url = ?
RECURSIVE WriteDetails(_, _, _)
WriteDetails(arts, details, now) ==
  IF details = <<>> THEN arts
  ELSE LET c == Head(details)
           id == ArticleIdByUrl(arts, c.url)
           next == IF id = NoRow THEN arts
                   ELSE [arts EXCEPT ![id] =
                           [@ EXCEPT !.title = c.title,
                                     !.author = c.author,
                                     !.content = c.content,
                                     !.content_fetched_at = now,
                                     !.updated_at = now]]
       IN WriteDetails(next, Tail(details), now)

----------------------------------------------------------------------------
(* cmd_llm: classification *)

\* str.split() separators
SplitSpace == Whitespace

\* " ".join(text.replace(NBSP, " ").split())
RECURSIVE CollapseSpace(_)
CollapseSpace(s) ==
  IF s = <<>> THEN <<>>
  ELSE IF Head(s) \in SplitSpace
    THEN LET rest == CollapseSpace(Tail(s))
         IN IF rest = <<>> \/ Head(rest) = " " THEN rest ELSE <<" ">> \o rest
  ELSE <<Head(s)>> \o CollapseSpace(Tail(s))

_normalize_whitespace(text) ==
  LET c == CollapseSpace(text)
  IN IF c # <<>> /\ Head(c) = " " THEN Tail(c) ELSE c

\* content.replace("\r\n", "\n").replace("\r", "\n")
RECURSIVE UnifyLineBreaks(_)
UnifyLineBreaks(s) ==
  IF s = <<>> THEN <<>>
  ELSE IF Head(s) = "\r"
    THEN <<"\n">> \o UnifyLineBreaks(IF Len(s) >= 2 /\ s[2] = "\n"
                                       THEN Tail(Tail(s)) ELSE Tail(s))
  ELSE <<Head(s)>> \o UnifyLineBreaks(Tail(s))

\* str.split("\n"): the pieces between the line breaks, empty ones too
RECURSIVE SplitLines(_)
SplitLines(s) ==
  IF \A k \in DOMAIN s : s[k] # "\n" THEN <<s>>
  ELSE TheOne({<<SubSeq(s, 1, i - 1)>>
                 \o SplitLines(SubSeq(s, i + 1, Len(s))) :
               i \in {k \in DOMAIN s :
                        s[k] = "\n" /\ \A j \in 1..(k - 1) : s[j] # "\n"}})

\* line.strip() for line in ... if line.strip()
RECURSIVE StrippedLines(_)
StrippedLines(lines) ==
  IF lines = <<>> THEN <<>>
  ELSE TheOne({(IF line = <<>> THEN <<>> ELSE <<line>>)
                 \o StrippedLines(Tail(lines)) :
               line \in {Strip(Head(lines))}})

\* "\n".join(lines)
RECURSIVE JoinLines(_)
JoinLines(lines) ==
  IF lines = <<>> THEN <<>>
  ELSE IF Len(lines) = 1 THEN lines[1]
  ELSE lines[1] \o <<"\n">> \o JoinLines(Tail(lines))

\* the cleaned content of build_content_excerpt
CleanedContent(content) ==
  Strip(JoinLines(StrippedLines(SplitLines(UnifyLineBreaks(content)))))

\* faulty variant: the cut keeps one character too many
ExcerptCutLate(cleaned, max_chars) == Prefix(cleaned, max_chars + 1)

\* cleaned[:max_chars]
ExcerptCut(cleaned, max_chars) == Prefix(cleaned, max_chars)

build_content_excerpt(content, max_chars) ==
  TheOne({IF cleaned = <<>> THEN <<>>
          ELSE IF Len(cleaned) <= max_chars THEN cleaned
          ELSE ExcerptCut(cleaned, max_chars) :
            cleaned \in {CleanedContent(content)}})

\* the CJK full stop, exclamation mark and question mark
Terminators == {"zh.", "zh!", "zh?"}

\* faulty variant: the summary is never cut
NoTerminator(s) == 0

\* the index of the third terminator of s, 0 when it has fewer
ThirdTerminator(s) ==
  LET at == {i \in 1..Len(s) : s[i] \in Terminators}
      third == {i \in at : Cardinality({j \in at : j <= i}) = 3}
  IN IF third = {} THEN 0 ELSE CHOOSE i \in third : TRUE

INVALID == [kind |-> "invalid"]

\* str(obj.get(key, "")): a JSON null reads as the text "None", a missing
\* key as the empty text
PyStr(v) == IF v = NULL THEN <<"N", "o", "n", "e">> ELSE v

\* faulty variant: the category is compared as it came
validate_untrimmed(obj) ==
  LET summary == _normalize_whitespace(Strip(PyStr(obj.summary_zh)))
  IN IF PyStr(obj.category) \notin CATEGORY_OPTIONS \/ summary = <<>>
       THEN INVALID
     ELSE [kind |-> "ok", category |-> PyStr(obj.category),
           summary |-> summary]

\* normalize_and_validate_llm_result: (category, summary) or a ValueError
normalize_and_validate_llm_result(obj) ==
  LET category == Strip(PyStr(obj.category))
      summary == _normalize_whitespace(Strip(PyStr(obj.summary_zh)))
      cut == ThirdTerminator(summary)
  IN IF category \notin CATEGORY_OPTIONS THEN INVALID
     ELSE IF summary = <<>> THEN INVALID
     ELSE [kind |-> "ok", category |-> category,
           summary |-> IF cut = 0 THEN summary
                       ELSE Strip(SubSeq(summary, 1, cut))]

\* The text of a reply, character by character; "json" stands for the bare
\* word json and "m" for the members of an object ("category": ..., ...)
\* str.strip of the backtick; "tick" stands for one backtick
RECURSIVE StripTicks(_)
StripTicks(s) ==
  IF s # <<>> /\ Head(s) = "tick" THEN StripTicks(Tail(s))
  ELSE IF s # <<>> /\ s[Len(s)] = "tick"
    THEN StripTicks(SubSeq(s, 1, Len(s) - 1))
  ELSE s

\* str.replace("json\n", "", 1): the first occurrence is taken out
DropFirstJsonLine(s) ==
  LET at == {k \in 1..(Len(s) - 1) : s[k] = "json" /\ s[k + 1] = "\n"}
  IN IF at = {} THEN s
     ELSE TheOne({SubSeq(s, 1, i - 1) \o SubSeq(s, i + 2, Len(s)) :
                  i \in {k \in at : \A j \in at : k <= j}})

\* str.find("{") and str.rfind("}"), 0 for the -1 of Python
FindFirst(s, c) ==
  IF \A k \in DOMAIN s : s[k] # c THEN 0
  ELSE CHOOSE k \in DOMAIN s : s[k] = c /\ \A j \in 1..(k - 1) : s[j] # c

FindLast(s, c) ==
  IF \A k \in DOMAIN s : s[k] # c THEN 0
  ELSE CHOOSE k \in DOMAIN s :
         s[k] = c /\ \A j \in (k + 1)..Len(s) : s[j] # c

NO_JSON == [kind |-> "raised"]

\* json.loads on the candidate: an object is an opening brace, members or
\* none, a closing brace, with whitespace between them; anything else raises
json_loads(candidate) ==
  LET IsInk(c) == c \notin Whitespace
  IN IF /\ Len(candidate) >= 2
        /\ candidate[1] = "{"
        /\ candidate[Len(candidate)] = "}"
        /\ SelectSeq(SubSeq(candidate, 2, Len(candidate) - 1), IsInk)
             \in {<<>>, <<"m">>}
       THEN [kind |-> "object",
             members |-> SelectSeq(SubSeq(candidate, 2, Len(candidate) - 1),
                                   IsInk)]
     ELSE NO_JSON

\* first = stripped.find("{"); last = stripped.rfind("}")
CandidateBounds(stripped) ==
  [first |-> FindFirst(stripped, "{"), last |-> FindLast(stripped, "}")]

\* the text once the fence is taken off
Unfenced(text) ==
  TheOne({IF Len(stripped) >= 3 /\ SubSeq(stripped, 1, 3) = <<"tick", "tick", "tick">>
            THEN Strip(DropFirstJsonLine(StripTicks(stripped)))
          ELSE stripped : stripped \in {Strip(text)}})

parse_llm_json_object(text) ==
  TheOne({TheOne({IF at.first = 0 \/ at.last = 0 \/ at.last <= at.first
                    THEN NO_JSON
                  ELSE json_loads(SubSeq(stripped, at.first, at.last)) :
                    at \in {CandidateBounds(stripped)}}) :
            stripped \in {Unfenced(text)}})

\* what one request through chat_completion_with_retries gives back: the
\* call failed after its retries, text holding no JSON object, or an object
REPLY_ERROR == [kind |-> "error"]
REPLY_NOJSON == [kind |-> "nojson"]

\* parse_llm_json_object followed by normalize_and_validate_llm_result
ParseAndValidate(reply) ==
  IF reply.kind = "json" THEN normalize_and_validate_llm_result(reply)
  ELSE INVALID

RAISED == [kind |-> "raised"]

\* what classify_and_summarize gave and how many requests it issued
Classified(res, requests) ==
  [kind |-> res.kind, requests |-> requests,
   category |-> IF res.kind = "ok" THEN res.category ELSE NULL,
   summary |-> IF res.kind = "ok" THEN res.summary ELSE NULL]

\* faulty variant: a failed repair is followed by another repair request
classify_and_repair_again(replies) ==
  IF replies[1] = REPLY_ERROR THEN Classified(RAISED, 1)
  ELSE IF ParseAndValidate(replies[1]) # INVALID
    THEN Classified(ParseAndValidate(replies[1]), 1)
  ELSE IF replies[2] = REPLY_ERROR THEN Classified(RAISED, 2)
  ELSE IF ParseAndValidate(replies[2]) # INVALID
    THEN Classified(ParseAndValidate(replies[2]), 2)
  ELSE IF replies[3] = REPLY_ERROR THEN Classified(RAISED, 3)
  ELSE IF ParseAndValidate(replies[3]) # INVALID
    THEN Classified(ParseAndValidate(replies[3]), 3)
  ELSE Classified(RAISED, 3)

\* classify_and_summarize: replies[k] is what the k-th request through
\* chat_completion_with_retries would give.  The normal request is outside
\* the try block; the except block issues one repair request and lets
\* whatever it raises go up
classify_and_summarize(replies) ==
  IF replies[1] = REPLY_ERROR THEN Classified(RAISED, 1)
  ELSE IF ParseAndValidate(replies[1]) # INVALID
    THEN Classified(ParseAndValidate(replies[1]), 1)
  ELSE IF replies[2] = REPLY_ERROR THEN Classified(RAISED, 2)
  ELSE IF ParseAndValidate(replies[2]) # INVALID
    THEN Classified(ParseAndValidate(replies[2]), 2)
  ELSE Classified(RAISED, 2)

\* faulty variant: articles without body content are selected too
LlmEligibleAnyContent(arts, llm) == {i \in DOMAIN arts : i \notin DOMAIN llm}

\* WHERE l.article_id IS NULL AND a.content IS NOT NULL AND a.content != ''
LlmEligible(arts, llm) ==
  {i \in DOMAIN arts :
     i \notin DOMAIN llm /\ arts[i].content # NULL /\ arts[i].content # <<>>}

\* the selected rows; of a row only the id reaches the store again (the
\* other columns go into the request to the LLM)
LlmRows(arts, llm, limit) ==
  LET ids == Limit(OrderedIds(arts, LlmEligible(arts, llm)), limit)
  IN [k \in 1..Len(ids) |-> [id |-> ids[k]]]

DEFAULT_DASHSCOPE_BASE_URL == "dashscope"

\* INSERT INTO llm_results ... ON CONFLICT(article_id) DO UPDATE
LlmResultRow(model, res, now) ==
  [model |-> model, base_url |-> DEFAULT_DASHSCOPE_BASE_URL,
   category |-> res.category, summary_zh |-> res.summary,
   raw_json |-> <<res.category, res.summary>>, created_at |-> now]

\* the loop of cmd_llm inside one transaction: an exception (a failed
\* classification, or the foreign key of llm_results) is caught nowhere and
\* leaves the loop; requests[k] is the number of LLM requests for row k
RECURSIVE LlmLoop(_, _, _, _, _, _, _)
LlmLoop(db, rows, scripts, model, now, processed, requests) ==
  IF rows = <<>>
    THEN [db |-> db, processed |-> processed, outcome |-> "ok",
          requests |-> requests]
  ELSE LET row == Head(rows)
           res == classify_and_summarize(Head(scripts))
           asked == Append(requests, res.requests)
       IN IF res.kind = "raised"
            THEN [db |-> db, processed |-> processed, outcome |-> "error",
                  requests |-> asked]
          ELSE IF ForeignKeysOn /\ row.id \notin DOMAIN db.articles
            THEN [db |-> db, processed |-> processed, outcome |-> "error",
                  requests |-> asked]
          ELSE LlmLoop(
                 [db EXCEPT
                    !.llm_results =
                       IF row.id \in DOMAIN @
                         THEN [@ EXCEPT ![row.id] =
                                 LlmResultRow(model, res, now)]
                         ELSE @ @@ (row.id :> LlmResultRow(model, res, now)),
                    !.articles =
                       IF row.id \in DOMAIN @
                         THEN [@ EXCEPT ![row.id].updated_at = now]
                         ELSE @],
                 Tail(rows), Tail(scripts), model, now, processed + 1, asked)

\* the with-block of cmd_llm: commit the loop's writes, or roll them back
cmd_llm_transaction(db, rows, scripts, model, now) ==
  LET r == LlmLoop(db, rows, scripts, model, now, 0, <<>>)
  IN [db |-> WithConn(db, r.db, r.outcome = "error"),
      processed |-> r.processed, outcome |-> r.outcome,
      requests |-> r.requests]

----------------------------------------------------------------------------
(* chat_completion_with_retries *)

\* what one client.chat.completions.create call does: it raises, or it
\* returns a completion whose message content is a text or None
CALL_FAILED == [kind |-> "failed"]
Completion(content) == [kind |-> "completion", content |-> content]

\* completion.choices[0].message.content or ""
ContentOrEmpty(content) == IF Truthy(content) THEN content ELSE <<>>

\* faulty variant: the delay is not capped
BackoffUncapped(attempt) == 2 ^ attempt

\* min(8.0, 2**attempt): the delay before the jitter is added
Backoff(attempt) == IF 2 ^ attempt < 8 THEN 2 ^ attempt ELSE 8

\* faulty variant: gives up one call early
RetriesExhaustedEarly(attempt, max_retries) == attempt + 1 >= max_retries

\* if attempt >= max_retries: break
RetriesExhausted(attempt, max_retries) == attempt >= max_retries

\* the state of one request: the calls made so far, the delays slept
RetryRequest(max_retries) ==
  [pc |-> "call", max_retries |-> max_retries, attempt |-> 0,
   calls |-> <<>>, slept |-> <<>>, text |-> NULL]

\* one pass of `for attempt in range(max_retries + 1)`
chat_completion_attempt(r, outcome) ==
  IF outcome.kind = "completion"
    THEN [r EXCEPT !.pc = "returned", !.calls = Append(@, outcome),
                   !.text = ContentOrEmpty(outcome.content)]
  ELSE IF RetriesExhausted(r.attempt, r.max_retries)
    THEN [r EXCEPT !.pc = "raised", !.calls = Append(@, outcome)]
  ELSE [r EXCEPT !.pc = IF r.attempt + 1 > r.max_retries
                          THEN "raised" ELSE "call",
                 !.attempt = @ + 1,
                 !.calls = Append(@, outcome),
                 !.slept = Append(@, Backoff(r.attempt))]

----------------------------------------------------------------------------
(* report.py: the weekly report *)

\* a datetime.date is the triple <<year, month, day>>
IsLeap(y) == (y % 4 = 0 /\ y % 100 # 0) \/ y % 400 = 0

DaysInMonth(y, m) ==
  IF m = 2 THEN (IF IsLeap(y) THEN 29 ELSE 28)
  ELSE IF m \in {4, 6, 9, 11} THEN 30 ELSE 31

RECURSIVE DaysBeforeMonth(_, _)
DaysBeforeMonth(y, m) ==
  IF m = 1 THEN 0 ELSE DaysBeforeMonth(y, m - 1) + DaysInMonth(y, m - 1)

DayOfYear(g) == DaysBeforeMonth(g[1], g[2]) + g[3]

\* date.toordinal(): 1 is 0001-01-01, a Monday
Ordinal(g) ==
  LET y == g[1] - 1
  IN 365 * y + (y \div 4) - (y \div 100) + (y \div 400) + DayOfYear(g)

\* date.isoweekday(): Monday is 1, Sunday is 7
IsoWeekday(g) == ((Ordinal(g) + 6) % 7) + 1

\* the number of ISO weeks of year y
IsoWeeksIn(y) ==
  LET jan1 == IsoWeekday(<<y, 1, 1>>)
  IN IF jan1 = 4 \/ (jan1 = 3 /\ IsLeap(y)) THEN 53 ELSE 52

\* date.isocalendar().week
IsoWeek(g) ==
  LET w == (DayOfYear(g) - IsoWeekday(g) + 10) \div 7
  IN IF w < 1 THEN IsoWeeksIn(g[1] - 1)
     ELSE IF w > IsoWeeksIn(g[1]) THEN 1
     ELSE w

\* date.fromisoformat on a text of the layout YYYY-MM-DD: the date, or NULL
\* for the ValueError (other ISO 8601 layouts are not among the inputs)
fromisoformat(text) ==
  IF /\ Len(text) = 10
     /\ \A k \in {1, 2, 3, 4, 6, 7, 9, 10} : text[k] \in Digits
     /\ text[5] = "-"
     /\ text[8] = "-"
    THEN LET y == NumAt(text, 1, 4)
             m == NumAt(text, 6, 2)
             d == NumAt(text, 9, 2)
         IN IF y >= 1 /\ m \in 1..12 /\ d >= 1 /\ d <= DaysInMonth(y, m)
              THEN <<y, m, d>> ELSE NULL
  ELSE NULL

\* _parse_iso_date: NULL stands for a value that is not a str, and for None
_parse_iso_date(value) ==
  IF value = NULL THEN NULL
  ELSE TheOne({IF text = <<>> THEN NULL
               ELSE IF Len(text) >= 10 /\ text[5] = "-" /\ text[8] = "-"
                 THEN fromisoformat(SubSeq(text, 1, 10))
               ELSE fromisoformat(text) : text \in {Strip(value)}})

\* LEFT JOIN llm_results l ON l.article_id = a.id: a column of l, NULL when
\* the article has no result
LlmCategoryOf(db, i) ==
  IF i \in DOMAIN db.llm_results THEN db.llm_results[i].category ELSE NULL

LlmSummaryOf(db, i) ==
  IF i \in DOMAIN db.llm_results THEN db.llm_results[i].summary_zh ELSE NULL

\* COALESCE(r.user_category, l.category, 'qi ta')
ReportCategory(db, i) ==
  Coalesce(db.reviews[i].user_category,
           Coalesce(LlmCategoryOf(db, i), CAT_OTHER))

\* COALESCE(r.user_summary_zh, l.summary_zh)
ReportSummary(db, i) ==
  Coalesce(db.reviews[i].user_summary_zh, LlmSummaryOf(db, i))

\* faulty variant: the review status is not looked at
ReportSelectedAnyStatus(db) ==
  {i \in (DOMAIN db.reviews) \cap (DOMAIN db.articles) :
     /\ db.articles[i].published_date \notin {NULL, <<>>}
     /\ ReportSummary(db, i) \notin {NULL, <<>>}}

\* FROM reviews r JOIN articles a ... WHERE r.review_status = 'reviewed' ...
ReportSelected(db) ==
  {i \in (DOMAIN db.reviews) \cap (DOMAIN db.articles) :
     /\ db.reviews[i].review_status = REVIEW_STATUS_REVIEWED
     /\ db.articles[i].published_date \notin {NULL, <<>>}
     /\ ReportSummary(db, i) \notin {NULL, <<>>}}

\* the ids of S in ascending order (the query has no ORDER BY; rows come in
\* the order of the reviews table)
RECURSIVE AscendingIds(_)
AscendingIds(S) ==
  IF S = {} THEN <<>>
  ELSE LET first == CHOOSE i \in S : \A j \in S : i <= j
       IN <<first>> \o AscendingIds(S \ {first})

ReportRow(db, i) ==
  [article_id |-> i,
   date |-> db.articles[i].published_date,
   title |-> db.articles[i].title,
   category |-> ReportCategory(db, i),
   summary_zh |-> ReportSummary(db, i),
   url |-> db.articles[i].url]

read_db_records(db) ==
  LET ids == AscendingIds(ReportSelected(db))
  IN [k \in DOMAIN ids |-> ReportRow(db, ids[k])]

\* faulty variant: an unknown category is kept as it came
ReportCategoryAsGiven(category_raw) ==
  IF category_raw = NULL THEN <<>> ELSE Strip(category_raw)

\* category = str(category_raw).strip(), 'qi ta' unless in CATEGORY_OPTIONS
NormalizedCategory(category_raw) ==
  LET category == IF category_raw = NULL THEN <<>> ELSE Strip(category_raw)
  IN IF category \in CATEGORY_OPTIONS THEN category ELSE CAT_OTHER

\* the Optional result of _normalize_report_record
NoRecord == [kept |-> FALSE]

\* _normalize_report_record: the normalized record, or NoRecord for None.
\* In the input NULL is a missing or non-string value, NoRow a missing
\* article_id and "" a missing url
_normalize_report_record(obj, year) ==
  TheOne({IF parsed_date = NULL \/ parsed_date[1] # year THEN NoRecord
          ELSE IF obj.summary_zh = NULL \/ Strip(obj.summary_zh) = <<>>
            THEN NoRecord
          ELSE [kept |-> TRUE,
                article_id |-> obj.article_id,
                category |-> NormalizedCategory(obj.category),
                week |-> IsoWeek(parsed_date),
                date |-> parsed_date,
                summary |-> _normalize_whitespace(obj.summary_zh),
                title |-> IF obj.title = NULL THEN <<>>
                          ELSE _normalize_whitespace(obj.title),
                url |-> obj.url] :
            parsed_date \in {_parse_iso_date(obj.date)}})

\* the normalized records that are kept, in input order
RECURSIVE KeptRecords(_, _)
KeptRecords(records, year) ==
  IF records = <<>> THEN <<>>
  ELSE LET normalized == _normalize_report_record(Head(records), year)
       IN (IF normalized.kept THEN <<normalized>> ELSE <<>>)
            \o KeptRecords(Tail(records), year)

\* grouped[category][week].append(normalized); kept += 1
build_weekly_report_index(records, year) ==
  LET kept == KeptRecords(records, year)
      cats == {kept[k].category : k \in DOMAIN kept}
      weeksOf(c) == {kept[k].week : k \in {j \in DOMAIN kept :
                                             kept[j].category = c}}
      bucket(c, w) ==
        LET In(n) == n.category = c /\ n.week = w
        IN SelectSeq(kept, In)
  IN [grouped |-> [c \in cats |-> [w \in weeksOf(c) |-> bucket(c, w)]],
      total |-> Len(kept)]

\* the order of datetime.date values
DateBefore(a, b) ==
  \/ a[1] < b[1]
  \/ a[1] = b[1] /\ a[2] < b[2]
  \/ a[1] = b[1] /\ a[2] = b[2] /\ a[3] < b[3]

\* faulty variant: the items stay in the order of the input
ItemsUnsorted(items) == items

\* items.sort(key=lambda item: item["date"], reverse=True): a stable sort,
\* items of one date keep their order
RECURSIVE ItemsByDateDesc(_)
ItemsByDateDesc(items) ==
  IF items = <<>> THEN <<>>
  ELSE LET sorted == ItemsByDateDesc(SubSeq(items, 1, Len(items) - 1))
           x == items[Len(items)]
           ahead == {k \in DOMAIN sorted : ~DateBefore(sorted[k].date, x.date)}
           n == IF ahead = {} THEN 0 ELSE Max(ahead)
       IN SubSeq(sorted, 1, n) \o <<x>> \o SubSeq(sorted, n + 1, Len(sorted))

\* sorted(weeks.keys(), reverse=True)
RECURSIVE WeeksDesc(_)
WeeksDesc(S) ==
  IF S = {} THEN <<>> ELSE <<Max(S)>> \o WeeksDesc(S \ {Max(S)})

\* for category in CATEGORY_OPTIONS
CategoryOrder ==
  <<CAT_EDA, CAT_DESIGN, CAT_MANUF, CAT_EQUIP, CAT_MATERIAL, CAT_PACKAGING,
    CAT_IDM, CAT_OTHER>>

\* the related list rendered under an item
RenderedRelated(related_map, article_id) ==
  IF article_id # NoRow /\ article_id \in DOMAIN related_map
    THEN related_map[article_id] ELSE <<>>

\* render_weekly_report_html: the page as its sections in order, each with
\* its weeks in order, each week with its items in order
render_weekly_report_html(grouped, related_map) ==
  LET shown == SelectSeq(CategoryOrder, LAMBDA c : c \in DOMAIN grouped)
      item(n) == [article_id |-> n.article_id, date |-> n.date,
                  summary |-> n.summary, url |-> n.url,
                  related |-> RenderedRelated(related_map, n.article_id)]
      week(c, w) ==
        LET items == ItemsByDateDesc(grouped[c][w])
        IN [week |-> w, items |-> [k \in DOMAIN items |-> item(items[k])]]
      section(c) ==
        LET weeks == WeeksDesc(DOMAIN grouped[c])
        IN [category |-> c,
            weeks |-> [k \in DOMAIN weeks |-> week(c, weeks[k])]]
  IN [k \in DOMAIN shown |-> section(shown[k])]

\* generate_weekly_report: the report of a list of JSONL records
generate_weekly_report(records, year) ==
  LET index == build_weekly_report_index(records, year)
  IN [grouped |-> index.grouped, total |-> index.total,
      html |-> render_weekly_report_html(index.grouped, EmptyTable)]

\* WHERE a_from.published_date >= 'Y-01-01' AND a_from.published_date <
\* 'Y+1-01-01', a comparison of texts
DateInYear(published_date, year) ==
  /\ published_date # NULL
  /\ ~TextLess(published_date, Pad4(year) \o <<"-", "0", "1", "-", "0", "1">>)
  /\ TextLess(published_date,
              Pad4(year + 1) \o <<"-", "0", "1", "-", "0", "1">>)

\* FROM article_links al JOIN articles a_from ... JOIN articles a_to ...:
\* the targets of the links of from_id whose source is dated in the year
RelatedTargets(db, year, from_id) ==
  {link.to_article_id :
     link \in {l \in ArticleLinkRows :
                 /\ l.from_article_id = from_id
                 /\ l.from_article_id \in DOMAIN db.articles
                 /\ l.to_article_id \in DOMAIN db.articles
                 /\ DateInYear(db.articles[from_id].published_date, year)}}

\* COALESCE(r.user_summary_zh, l.summary_zh) with LEFT JOIN reviews r
RelatedSummary(db, i) ==
  Coalesce(IF i \in DOMAIN db.reviews
             THEN db.reviews[i].user_summary_zh ELSE NULL,
           LlmSummaryOf(db, i))

RelatedRow(db, i) ==
  LET parsed_date == _parse_iso_date(db.articles[i].published_date)
      summary_raw == RelatedSummary(db, i)
  IN [article_id |-> i,
      url |-> db.articles[i].url,
      date |-> db.articles[i].published_date,
      week |-> IF parsed_date = NULL THEN 0 ELSE IsoWeek(parsed_date),
      summary |-> IF summary_raw = NULL THEN <<>>
                  ELSE _normalize_whitespace(summary_raw),
      title |-> IF db.articles[i].title = NULL THEN <<>>
                ELSE _normalize_whitespace(db.articles[i].title)]

\* build_related_map: the query raises when the table article_links is not
\* there; otherwise the rows come ORDER BY a_to.published_date DESC,
\* a_to.id DESC and a row with neither summary nor title is skipped
build_related_map(db, year) ==
  IF ~TableExists("article_links")
    THEN [outcome |-> "error", related_map |-> EmptyTable]
  ELSE LET froms == {i \in DOMAIN db.articles :
                       RelatedTargets(db, year, i) # {}}
           rows(i) ==
             LET ids == OrderedIds(db.articles, RelatedTargets(db, year, i))
                 all == [k \in DOMAIN ids |-> RelatedRow(db, ids[k])]
                 Shown(row) == row.summary # <<>> \/ row.title # <<>>
             IN SelectSeq(all, Shown)
       IN [outcome |-> "ok",
           related_map |-> [i \in {j \in froms : rows(j) # <<>>} |-> rows(i)]]

\* generate_weekly_report_from_db: nothing is written when build_related_map
\* raises
generate_weekly_report_from_db(db, year) ==
  LET records == read_db_records(db)
      index == build_weekly_report_index(records, year)
      related == build_related_map(db, year)
  IN IF related.outcome = "error"
       THEN [outcome |-> "error", records |-> records]
     ELSE [outcome |-> "ok", records |-> records,
           grouped |-> index.grouped, total |-> index.total,
           html |-> render_weekly_report_html(index.grouped,
                                              related.related_map)]

----------------------------------------------------------------------------
(* web_review: the review page *)

\* Python `a or b` on Optional[str] values
PyOr(a, b) == IF Truthy(a) THEN a ELSE b

\* FROM reviews r JOIN articles a ... WHERE a.published_date >= ? AND
\* a.published_date < ?
ReviewListed(db, year) ==
  {i \in (DOMAIN db.reviews) \cap (DOMAIN db.articles) :
     DateInYear(db.articles[i].published_date, year)}

\* one item of _fetch_items, built from a row whose published_date parses
ReviewItem(db, i) ==
  [id |-> i,
   date |-> db.articles[i].published_date,
   week |-> IsoWeek(fromisoformat(db.articles[i].published_date)),
   url |-> db.articles[i].url,
   review_status |-> db.reviews[i].review_status,
   final_title |-> PyOr(db.reviews[i].user_title, db.articles[i].title),
   final_category |-> PyOr(db.reviews[i].user_category,
                           PyOr(LlmCategoryOf(db, i), CAT_OTHER)),
   final_summary |-> PyOr(db.reviews[i].user_summary_zh,
                          PyOr(LlmSummaryOf(db, i), <<>>)),
   user_title |-> db.reviews[i].user_title,
   user_category |-> db.reviews[i].user_category,
   user_summary_zh |-> db.reviews[i].user_summary_zh,
   user_notes |-> db.reviews[i].user_notes,
   llm_category |-> LlmCategoryOf(db, i),
   llm_summary |-> LlmSummaryOf(db, i)]

\* _fetch_items: the rows ORDER BY a.published_date DESC, a.id DESC;
\* date.fromisoformat(published_date) is not guarded, so one row whose date
\* is no calendar date raises ValueError out of the function
_fetch_items(db, year) ==
  LET ids == OrderedIds(db.articles, ReviewListed(db, year))
  IN IF \E k \in DOMAIN ids :
          fromisoformat(db.articles[ids[k]].published_date) = NULL
       THEN [outcome |-> "error", items |-> <<>>]
     ELSE [outcome |-> "ok",
           items |-> [k \in DOMAIN ids |-> ReviewItem(db, ids[k])]]

\* grouped[category][week].sort(key=lambda x: x["date"], reverse=True): a
\* stable sort on the text of the date
RECURSIVE ItemsByTextDateDesc(_)
ItemsByTextDateDesc(items) ==
  IF items = <<>> THEN <<>>
  ELSE LET sorted == ItemsByTextDateDesc(SubSeq(items, 1, Len(items) - 1))
           x == items[Len(items)]
           ahead == {k \in DOMAIN sorted : ~TextLess(sorted[k].date, x.date)}
           n == IF ahead = {} THEN 0 ELSE Max(ahead)
       IN SubSeq(sorted, 1, n) \o <<x>> \o SubSeq(sorted, n + 1, Len(sorted))

\* the category an item is grouped under
GroupCategory(item) ==
  LET category == PyOr(item.final_category, CAT_OTHER)
  IN IF category \in CATEGORY_OPTIONS THEN category ELSE CAT_OTHER

\* _group_items
_group_items(items) ==
  LET cats == {GroupCategory(items[k]) : k \in DOMAIN items}
      weeksOf(c) == {items[k].week : k \in {j \in DOMAIN items :
                                             GroupCategory(items[j]) = c}}
      bucket(c, w) ==
        LET In(item) == GroupCategory(item) = c /\ item.week = w
        IN ItemsByTextDateDesc(SelectSeq(items, In))
  IN [c \in cats |-> [w \in weeksOf(c) |-> bucket(c, w)]]

\* the placeholder shown for an item without summary
NO_SUMMARY == <<"shang", "wei", "sheng", "cheng", "zhai", "yao">>

\* the texts render_review_html writes for one item: the summary line, the
\* line of date, category and status, the values of the edit form and the
\* LLM values; no other key of the item is read
RenderedReviewItem(item) ==
  LET final_summary == IF item.final_summary = <<>> THEN NO_SUMMARY
                       ELSE item.final_summary
      final_category == PyOr(item.final_category, CAT_OTHER)
  IN [id |-> item.id,
      pending |-> item.review_status # REVIEW_STATUS_REVIEWED,
      summary |-> final_summary,
      url |-> item.url,
      date |-> item.date,
      category |-> final_category,
      status |-> item.review_status,
      form_title |-> item.final_title,
      form_category |-> IF final_category \in CATEGORY_OPTIONS
                          THEN final_category ELSE CAT_OTHER,
      form_summary |-> IF final_summary # NO_SUMMARY THEN final_summary
                       ELSE <<>>,
      form_notes |-> PyOr(item.user_notes, <<>>),
      llm_category |-> PyOr(item.llm_category, <<>>),
      llm_summary |-> PyOr(item.llm_summary, <<>>)]

\* render_review_html: the page as its sections in the order of
\* CATEGORY_OPTIONS, each with its weeks descending, each week with its
\* items in the order of the group
render_review_html(grouped) ==
  LET shown == SelectSeq(CategoryOrder, LAMBDA c : c \in DOMAIN grouped)
      week(c, w) ==
        [week |-> w,
         items |-> [k \in DOMAIN grouped[c][w] |->
                      RenderedReviewItem(grouped[c][w][k])]]
      section(c) ==
        LET weeks == WeeksDesc(DOMAIN grouped[c])
        IN [category |-> c,
            weeks |-> [k \in DOMAIN weeks |-> week(c, weeks[k])]]
  IN [k \in DOMAIN shown |-> section(shown[k])]

\* index (GET /): the page of a year, or the error of _fetch_items
index(db, year) ==
  LET fetched == _fetch_items(db, year)
  IN IF fetched.outcome = "error"
       THEN [outcome |-> "error", items |-> <<>>]
     ELSE [outcome |-> "ok", items |-> fetched.items,
           page |-> render_review_html(_group_items(fetched.items))]

----------------------------------------------------------------------------
(* Bounds and input sets *)

MaxNow == 2
MaxBatch == 2
MaxLimit == 2
MaxItemId == 2
MaxRetries == 5
MaxSummaryLen == 5
MaxRecords == 3
MaxContentLen == 5
MaxChars == 3
MaxTextLen == 4

Urls == {"u1", "u2"}

T_A == <<"A">>
T_B == <<"B">>

\* what scrape_list can return for one card: a non-empty title, an absolute
\* URL, and a date that is None or a non-empty string
NewsItems(titles, urls, dates) == [title : titles, url : urls, date : dates]

Batches(items) ==
  UNION {[1..n -> items] : n \in 0..MaxBatch}

\* the forms the review page can post to save_item
FORM_PLAIN ==
  [user_title |-> <<>>, user_category |-> CAT_EQUIP,
   user_summary_zh |-> <<>>, user_notes |-> <<>>]
FORM_PADDED ==
  [user_title |-> <<" ", "t">>, user_category |-> <<" ", "she", "ji", " ">>,
   user_summary_zh |-> <<"s", " ">>, user_notes |-> <<"n">>]
FORM_BOGUS ==
  [user_title |-> <<"t">>, user_category |-> <<"x">>,
   user_summary_zh |-> <<"s">>, user_notes |-> <<>>]

\* what extract_article_content can return for a fetched page
PAGE_FULL == [kind |-> "page", title |-> T_B, author |-> <<"w">>,
              content |-> <<"b", "o", "d", "y">>]
PAGE_BARE == [kind |-> "page", title |-> NULL, author |-> NULL,
              content |-> <<"b">>]
PAGE_EMPTY == [kind |-> "page", title |-> <<>>, author |-> NULL,
               content |-> <<>>]

REPLY_GOOD == [kind |-> "json", category |-> CAT_EQUIP,
               summary_zh |-> <<"s", "zh.">>]
REPLY_LONG == [kind |-> "json", category |-> <<" ", "she", "ji">>,
               summary_zh |-> <<"a", "zh.", " ", " ", "b", "zh!", "c", "zh?",
                                "d", "zh.">>]
REPLY_BADCAT == [kind |-> "json", category |-> <<"x">>,
                 summary_zh |-> <<"s", "zh.">>]

\* a script is what the LLM would answer to the first, the second and the
\* third request made for one article
SCRIPT_GOOD == <<REPLY_GOOD, REPLY_ERROR, REPLY_ERROR>>
SCRIPT_DOWN == <<REPLY_ERROR, REPLY_GOOD, REPLY_GOOD>>
SCRIPT_REPAIRED == <<REPLY_BADCAT, REPLY_LONG, REPLY_ERROR>>
SCRIPT_REPAIR_DOWN == <<REPLY_NOJSON, REPLY_ERROR, REPLY_GOOD>>
SCRIPT_TWICE_BAD == <<REPLY_NOJSON, REPLY_BADCAT, REPLY_GOOD>>

LlmScripts == {SCRIPT_GOOD, SCRIPT_DOWN}

AllLlmScripts ==
  {SCRIPT_GOOD, SCRIPT_DOWN, SCRIPT_REPAIRED, SCRIPT_REPAIR_DOWN,
   SCRIPT_TWICE_BAD}

\* --model, "qwen-plus" unless given
DefaultModel == "qwen-plus"
Models == {DefaultModel, "qwen-max"}

Now == {t \in {clock, clock + 1} : t <= MaxNow}

\* cmd_sync reads the time before it scrapes, and writes it after: the
\* timestamp of a sync pass is any time up to the present
SyncNow == {t \in 1..MaxNow : t <= clock + 1}

RunIdle == [pc |-> "idle"]

----------------------------------------------------------------------------
(* State machine *)

Store == [articles |-> articles, reviews |-> reviews,
          llm_results |-> llm_results]

Init ==
  /\ articles = EmptyTable
  /\ reviews = EmptyTable
  /\ llm_results = EmptyTable
  /\ ignored_urls = {}
  /\ clock = 1
  /\ fetch_run = RunIdle
  /\ llm_run = RunIdle
  /\ retry = RunIdle
  /\ last = [op |-> "init"]

\* cmd_sync with the items scrape_list returned; rerun records that the
\* previous step was a sync pass over the same items
Sync(items) ==
  \E now \in SyncNow :
    \E r \in {UpsertLoop(Store, items, now, 0, 0)} :
       /\ clock' = Max({clock, now})
       /\ IF items = <<>>
            THEN /\ UNCHANGED <<articles, reviews>>
                 /\ last' = [op |-> "sync", items |-> items, new_count |-> 0,
                             updated_count |-> 0, pending_total |-> 0,
                             rerun |-> FALSE]
            ELSE /\ articles' = r.db.articles
                 /\ reviews' = r.db.reviews
                 /\ last' = [op |-> "sync", items |-> items,
                             new_count |-> r.new_count,
                             updated_count |-> r.updated_count,
                             pending_total |->
                               get_pending_review_total(r.db.reviews),
                             rerun |-> (last.op = "sync" /\ last.items = items)]
       /\ UNCHANGED <<llm_results, ignored_urls, fetch_run, llm_run, retry>>

\* POST /item/{item_id} with action "save" or "save_approve"
Save(item_id, action, form) ==
  \E now \in Now :
    /\ clock' = now
    /\ reviews' = save_item(reviews, item_id, action, form, now)
    /\ last' = [op |-> action, item_id |-> item_id, form |-> form,
                outcome |-> "ok"]
    /\ UNCHANGED <<articles, llm_results, ignored_urls,
                   fetch_run, llm_run, retry>>

\* POST /item/{item_id}/approve
Approve(item_id) ==
  \E now \in Now :
    /\ clock' = now
    /\ reviews' = approve_item(reviews, item_id, now)
    /\ last' = [op |-> "approve", item_id |-> item_id, outcome |-> "ok"]
    /\ UNCHANGED <<articles, llm_results, ignored_urls,
                   fetch_run, llm_run, retry>>

\* cmd_sync whose transaction fails at the upsert of items[fail_at]
SyncFails(items, fail_at) ==
  \E now \in SyncNow :
    \E db \in {cmd_sync_failing(Store, items, now, fail_at)} :
       /\ articles' = db.articles
       /\ reviews' = db.reviews
       /\ llm_results' = db.llm_results
       /\ clock' = Max({clock, now})
       /\ last' = [op |-> "sync_failed", items |-> items,
                   fail_at |-> fail_at]
       /\ UNCHANGED <<ignored_urls, fetch_run, llm_run, retry>>

\* POST /item/{item_id} whose transaction fails at statement fail_at
SaveFails(item_id, action, form, fail_at) ==
  \E now \in Now :
    /\ fail_at = 2 => action = "save_approve"
    /\ clock' = now
    /\ reviews' = save_item_failing(reviews, item_id, action, form, now,
                                    fail_at)
    /\ last' = [op |-> "save_failed", action |-> action,
                item_id |-> item_id, form |-> form, fail_at |-> fail_at]
    /\ UNCHANGED <<articles, llm_results, ignored_urls,
                   fetch_run, llm_run, retry>>

\* POST /item/{item_id}/approve whose UPDATE fails
ApproveFails(item_id) ==
  \E now \in Now :
    /\ clock' = now
    /\ reviews' = approve_item_failing(reviews, item_id, now)
    /\ last' = [op |-> "approve_failed", item_id |-> item_id]
    /\ UNCHANGED <<articles, llm_results, ignored_urls,
                   fetch_run, llm_run, retry>>

\* POST /item/{item_id}/delete
Delete(item_id) ==
  \E r \in {delete_item(Store, ignored_urls, item_id)} :
     /\ articles' = r.db.articles
     /\ reviews' = r.db.reviews
     /\ llm_results' = r.db.llm_results
     /\ ignored_urls' = r.ignored_urls
     /\ last' = [op |-> "delete", item_id |-> item_id,
                 url |-> IF item_id \in DOMAIN articles
                           THEN articles[item_id].url ELSE "",
                 outcome |-> r.outcome]
     /\ UNCHANGED <<clock, fetch_run, llm_run, retry>>

\* cmd_fetch up to the page fetches: the selection of the rows to backfill
FetchSelect(limit) ==
  /\ fetch_run = RunIdle
  /\ LET items == FetchRows(articles, limit)
     IN /\ fetch_run' = IF items = <<>> THEN RunIdle
                        ELSE [pc |-> "fetching", items |-> items]
        /\ last' = [op |-> "fetch_select", selected |-> Len(items)]
  /\ UNCHANGED <<articles, reviews, llm_results, ignored_urls,
                 clock, llm_run, retry>>

\* cmd_fetch from the page fetches on: pages[k] is what the fetch of the
\* k-th selected item gave
FetchWrite(pages) ==
  /\ fetch_run.pc = "fetching"
  /\ DOMAIN pages = DOMAIN fetch_run.items
  /\ LET details == FetchAll(fetch_run.items, pages)
     IN IF details = <<>>
          THEN /\ UNCHANGED <<articles, clock>>
               /\ last' = [op |-> "fetch", updated |-> 0, pages |-> pages]
          ELSE \E now \in Now :
                 /\ clock' = now
                 /\ articles' = WriteDetails(articles, details, now)
                 /\ last' = [op |-> "fetch", updated |-> Len(details),
                             pages |-> pages]
  /\ fetch_run' = RunIdle
  /\ UNCHANGED <<reviews, llm_results, ignored_urls, llm_run, retry>>

\* cmd_llm up to the first LLM call: the selection, the client, the timestamp
LlmSelect(limit, model, has_key) ==
  /\ llm_run = RunIdle
  /\ LET rows == LlmRows(articles, llm_results, limit)
     IN IF rows = <<>>
          THEN /\ last' = [op |-> "llm_select", outcome |-> "none",
                           limit |-> limit, model |-> model,
                           has_key |-> has_key]
               /\ UNCHANGED <<llm_run, clock>>
        ELSE IF ~has_key
          THEN /\ last' = [op |-> "llm_select", outcome |-> "error",
                           limit |-> limit, model |-> model,
                           has_key |-> has_key]
               /\ UNCHANGED <<llm_run, clock>>
        ELSE \E now \in Now :
               /\ clock' = now
               /\ llm_run' = [pc |-> "processing", rows |-> rows,
                              model |-> model, now |-> now]
               /\ last' = [op |-> "llm_select", outcome |-> "ok",
                           limit |-> limit, model |-> model,
                           has_key |-> has_key]
  /\ UNCHANGED <<articles, reviews, llm_results, ignored_urls,
                 fetch_run, retry>>

\* cmd_llm from the first LLM call on: scripts[k] is what the LLM answers for
\* the k-th selected row
LlmWrite(scripts) ==
  /\ llm_run.pc = "processing"
  /\ DOMAIN scripts = DOMAIN llm_run.rows
  /\ \E r \in {cmd_llm_transaction(Store, llm_run.rows, scripts,
                                     llm_run.model, llm_run.now)} :
        /\ articles' = r.db.articles
        /\ llm_results' = r.db.llm_results
        /\ last' = [op |-> "llm", processed |-> r.processed,
                    outcome |-> r.outcome, model |-> llm_run.model,
                    scripts |-> scripts, requests |-> r.requests]
  /\ llm_run' = RunIdle
  /\ UNCHANGED <<reviews, ignored_urls, clock, fetch_run, retry>>

\* cmd_llm from the first LLM call on, with an LLM whose answers depend on
\* the article alone: script_of[url] is what it answers for the article of
\* that URL in every run
LlmWriteFor(script_of) ==
  /\ llm_run.pc = "processing"
  /\ LlmWrite([k \in DOMAIN llm_run.rows |->
                 script_of[articles[llm_run.rows[k].id].url]])

\* normalize_and_validate_llm_result applied to the object drawn at the start
Validate ==
  /\ last.op = "object"
  /\ last' = [op |-> "validated", obj |-> last.obj,
              result |-> normalize_and_validate_llm_result(last.obj)]
  /\ UNCHANGED <<articles, reviews, llm_results, ignored_urls, clock,
                 fetch_run, llm_run, retry>>

\* build_content_excerpt applied to the content and the budget drawn at the
\* start
BuildExcerpt ==
  /\ last.op = "content"
  /\ last' = [op |-> "excerpt", content |-> last.content,
              max_chars |-> last.max_chars,
              result |-> build_content_excerpt(last.content, last.max_chars)]
  /\ UNCHANGED <<articles, reviews, llm_results, ignored_urls, clock,
                 fetch_run, llm_run, retry>>

\* parse_llm_json_object applied to the text drawn at the start
ParseReply ==
  /\ last.op = "reply_text"
  /\ last' = [op |-> "parsed", inner |-> last.inner, fence |-> last.fence,
              text |-> last.text,
              result |-> parse_llm_json_object(last.text)]
  /\ UNCHANGED <<articles, reviews, llm_results, ignored_urls, clock,
                 fetch_run, llm_run, retry>>

\* normalize_published_date applied to the raw date drawn at the start
NormalizeDate ==
  /\ last.op = "raw_date"
  /\ last' = [op |-> "normalized", value |-> last.value,
              result |-> normalize_published_date(last.value)]
  /\ UNCHANGED <<articles, reviews, llm_results, ignored_urls, clock,
                 fetch_run, llm_run, retry>>

\* generate_weekly_report on the records and the year drawn at the start
ReportFromRecords ==
  /\ last.op = "records"
  /\ \E r \in {generate_weekly_report(last.records, last.year)} :
        last' = [op |-> "report", records |-> last.records,
                 year |-> last.year, grouped |-> r.grouped,
                 total |-> r.total, html |-> r.html]
  /\ UNCHANGED <<articles, reviews, llm_results, ignored_urls, clock,
                 fetch_run, llm_run, retry>>

\* report.py --db --year: the report of the store
ReportFromDb(year) ==
  /\ \E r \in {generate_weekly_report_from_db(Store, year)} :
        last' = [op |-> "report_db", year |-> year] @@ r
  /\ UNCHANGED <<articles, reviews, llm_results, ignored_urls, clock,
                 fetch_run, llm_run, retry>>

\* _group_items and render_review_html on the items drawn at the start
RenderReview ==
  /\ last.op = "review_items"
  /\ last' = [op |-> "review_render", items |-> last.items,
              page |-> render_review_html(_group_items(last.items))]
  /\ UNCHANGED <<articles, reviews, llm_results, ignored_urls, clock,
                 fetch_run, llm_run, retry>>

\* GET /?year=: the review page of the store
ReviewPage(year) ==
  /\ \E r \in {index(Store, year)} :
        last' = [op |-> "review_page", year |-> year] @@ r
  /\ UNCHANGED <<articles, reviews, llm_results, ignored_urls, clock,
                 fetch_run, llm_run, retry>>

\* chat_completion_with_retries is called with max_retries
RetryStart(max_retries) ==
  /\ retry.pc # "call"
  /\ retry' = RetryRequest(max_retries)
  /\ last' = [op |-> "request", max_retries |-> max_retries]
  /\ UNCHANGED <<articles, reviews, llm_results, ignored_urls, clock,
                 fetch_run, llm_run>>

\* one call of the collaborator and what the loop does with its outcome
RetryCall(outcome) ==
  /\ retry.pc = "call"
  /\ retry' = chat_completion_attempt(retry, outcome)
  /\ last' = [op |-> "call", attempt |-> retry.attempt]
  /\ UNCHANGED <<articles, reviews, llm_results, ignored_urls, clock,
                 fetch_run, llm_run>>

ItemIds == 1..MaxItemId
SaveOps == {"save", "save_approve"}
Limits == 1..MaxLimit
SaveForms == {FORM_PADDED, FORM_BOGUS}
Pages == {FETCH_FAILED, PAGE_FULL}

SeqsUpTo(S, n) == UNION {[1..k -> S] : k \in 1..n}

\* The pipeline on one URL: every stage and every review handler, in any
\* interleaving
PipelineBatches ==
  {<<>>} \cup {<<item>> : item \in NewsItems({T_A}, {"u1"}, {NULL, D_ISO})}

Next ==
  \/ \E items \in PipelineBatches : Sync(items)
  \/ \E i \in ItemIds, f \in SaveForms : Save(i, "save", f)
  \/ \E i \in ItemIds, f \in SaveForms : Save(i, "save_approve", f)
  \/ \E i \in ItemIds : Approve(i)
  \/ \E i \in ItemIds : Delete(i)
  \/ \E n \in Limits : FetchSelect(n)
  \/ \E pages \in SeqsUpTo(Pages, MaxLimit) : FetchWrite(pages)
  \/ \E n \in Limits, k \in BOOLEAN : LlmSelect(n, DefaultModel, k)
  \/ \E scripts \in SeqsUpTo(LlmScripts, MaxLimit) : LlmWrite(scripts)

Spec == Init /\ [][Next]_vars

\* Sync passes over two URLs: the first with every kind of raw date, the
\* second dated or not
SyncBatches ==
  Batches(NewsItems({T_A}, {"u1"}, RawDates)
            \cup NewsItems({T_A}, Urls \ {"u1"}, {NULL, D_ISO}))

NextSync == \E items \in SyncBatches : Sync(items)

SpecSync == Init /\ [][NextSync]_vars

\* Two articles that go through the stages together, and the reviewer
BothUrls ==
  <<[title |-> T_A, url |-> "u1", date |-> D_ISO],
    [title |-> T_A, url |-> "u2", date |-> NULL]>>

NextReview ==
  \/ Sync(BothUrls)
  \/ \E i \in ItemIds, f \in {FORM_PADDED} : Save(i, "save", f)
  \/ \E i \in ItemIds, f \in {FORM_BOGUS} : Save(i, "save_approve", f)
  \/ \E i \in ItemIds : Approve(i)
  \/ FetchSelect(MaxLimit)
  \/ \E pages \in {[k \in 1..n |-> PAGE_FULL] : n \in 1..MaxLimit} :
       FetchWrite(pages)
  \/ LlmSelect(MaxLimit, DefaultModel, TRUE)
  \/ \E scripts \in {[k \in 1..n |-> SCRIPT_GOOD] : n \in 1..MaxLimit} :
       LlmWrite(scripts)

SpecReview == Init /\ [][NextReview]_vars

\* The transactions of the sync pass and of the review handlers, each with
\* and without a statement that raises
NextAtomic ==
  \/ Sync(BothUrls)
  \/ \E k \in DOMAIN BothUrls : SyncFails(BothUrls, k)
  \/ \E i \in ItemIds, a \in SaveOps : Save(i, a, FORM_PADDED)
  \/ \E i \in ItemIds, a \in SaveOps, k \in {1, 2} :
       SaveFails(i, a, FORM_BOGUS, k)
  \/ \E i \in ItemIds : Approve(i)
  \/ \E i \in ItemIds : ApproveFails(i)
  \/ \E i \in ItemIds : Delete(i)

SpecAtomic == Init /\ [][NextAtomic]_vars

\* The stages on two articles: page fetches that fail, succeed or find an
\* empty body; LLM replies of every kind; runs with and without credential
StagePages == {FETCH_FAILED, PAGE_FULL, PAGE_BARE, PAGE_EMPTY}

NextStages ==
  \/ Sync(BothUrls)
  \/ \E n \in Limits : FetchSelect(n)
  \/ \E pages \in SeqsUpTo(StagePages, MaxLimit) : FetchWrite(pages)
  \/ \E n \in Limits, m \in Models, k \in BOOLEAN : LlmSelect(n, m, k)
  \/ \E scripts \in SeqsUpTo(AllLlmScripts, MaxLimit) : LlmWrite(scripts)

SpecStages == Init /\ [][NextStages]_vars

\* One request through the retry helper: any number of retries allowed up to
\* MaxRetries, every call failing or answering; the loop keeps running
Contents == {NULL, <<>>, <<"a">>, <<"o", "k">>}
CallOutcomes == {CALL_FAILED} \cup {Completion(c) : c \in Contents}

NextRetry ==
  \/ \E n \in 0..MaxRetries : RetryStart(n)
  \/ \E o \in CallOutcomes : RetryCall(o)

SpecRetry ==
  /\ Init
  /\ [][NextRetry]_vars
  /\ WF_vars(\E o \in CallOutcomes : RetryCall(o))

\* Validation of one parsed LLM object: categories in and out of the
\* enumeration, padded, empty or null; summaries of plain characters,
\* sentence terminators and white space
SummaryChars == {"x", "zh.", "zh?", " ", NBSP}

ValidateSummaries ==
  UNION {[1..n -> SummaryChars] : n \in 0..MaxSummaryLen}
    \cup {NULL, REPLY_LONG.summary_zh, <<"\t", "x", "zh!", "\n">>}

ValidateCategories ==
  {CAT_EQUIP, <<" ", "she", "bei", NBSP>>, CAT_OTHER, <<"she">>,
   <<"x">>, <<>>, <<" ">>, NULL}

ValidateObjects ==
  [category : ValidateCategories, summary_zh : ValidateSummaries]

InitValidate ==
  /\ articles = EmptyTable
  /\ reviews = EmptyTable
  /\ llm_results = EmptyTable
  /\ ignored_urls = {}
  /\ clock = 1
  /\ fetch_run = RunIdle
  /\ llm_run = RunIdle
  /\ retry = RunIdle
  /\ \E obj \in ValidateObjects : last = [op |-> "object", obj |-> obj]

NextValidate == Validate

SpecValidate == InitValidate /\ [][NextValidate]_vars

\* The excerpt of every content of letters, spaces and line breaks of both
\* kinds, under every budget from nothing to more than the content
ExcerptChars == {"a", " ", "\n", "\r"}

ExcerptContents == {<<>>} \cup SeqsUpTo(ExcerptChars, MaxContentLen)

InitExcerpt ==
  /\ articles = EmptyTable
  /\ reviews = EmptyTable
  /\ llm_results = EmptyTable
  /\ ignored_urls = {}
  /\ clock = 1
  /\ fetch_run = RunIdle
  /\ llm_run = RunIdle
  /\ retry = RunIdle
  /\ \E content \in ExcerptContents, max_chars \in 0..MaxChars :
        last = [op |-> "content", content |-> content,
                max_chars |-> max_chars]

NextExcerpt == BuildExcerpt

SpecExcerpt == InitExcerpt /\ [][NextExcerpt]_vars

\* The parse of a reply text: every short text of braces, members, the
\* bare word json, line breaks and backticks, as it is and inside a Markdown
\* code fence with or without the language tag
ReplyChars == {"{", "}", "m", "json", "\n", "tick"}

ReplyTexts == {<<>>} \cup SeqsUpTo(ReplyChars, MaxTextLen)

FENCE == <<"tick", "tick", "tick">>

Fences == {"none", "tagged", "untagged"}

\* the text in a fence with the tag json, and in a fence with no tag
Fenced(text, fence) ==
  IF fence = "tagged"
    THEN FENCE \o <<"json", "\n">> \o text \o <<"\n">> \o FENCE
  ELSE IF fence = "untagged"
    THEN FENCE \o <<"\n">> \o text \o <<"\n">> \o FENCE
  ELSE text

InitParse ==
  /\ articles = EmptyTable
  /\ reviews = EmptyTable
  /\ llm_results = EmptyTable
  /\ ignored_urls = {}
  /\ clock = 1
  /\ fetch_run = RunIdle
  /\ llm_run = RunIdle
  /\ retry = RunIdle
  /\ \E inner \in ReplyTexts, fence \in Fences :
        last = [op |-> "reply_text", inner |-> inner, fence |-> fence,
                text |-> Fenced(inner, fence)]

NextParse == ParseReply

SpecParse == InitParse /\ [][NextParse]_vars

\* Date normalization of one raw date string: a year, a month and a day of
\* one or two digits, joined by every pair of separators, bare or inside
\* other text; and the missing, empty and blank raw dates
DateYears == {<<"2", "0", "2", "6">>}
DateMonths == {<<"1">>, <<"0", "1">>, <<"1", "3">>}
DateDays == {<<"5">>, <<"0", "5">>, <<"3", "1">>}
DateJoins == {"-", "/", ".", "nian", "yue"}
DateHeads == {<<>>, <<" ">>, <<"x">>}
DateEnds == {<<>>, <<"ri">>, <<" ", "x">>}

DateInputs ==
  {h \o y \o <<a>> \o m \o <<b>> \o d \o e :
     h \in DateHeads, y \in DateYears, a \in DateJoins, m \in DateMonths,
     b \in DateJoins, d \in DateDays, e \in DateEnds}
    \cup {NULL, <<>>, <<" ">>, <<"x">>, <<"2", "0", "2", "6">>}

InitDates ==
  /\ articles = EmptyTable
  /\ reviews = EmptyTable
  /\ llm_results = EmptyTable
  /\ ignored_urls = {}
  /\ clock = 1
  /\ fetch_run = RunIdle
  /\ llm_run = RunIdle
  /\ retry = RunIdle
  /\ \E v \in DateInputs : last = [op |-> "raw_date", value |-> v]

NextDates == NormalizeDate

SpecDates == InitDates /\ [][NextDates]_vars

\* The report of a list of JSONL records: dates of two years, in and out of
\* the calendar, bare, padded and with a time; categories in and out of the
\* enumeration; summaries plain, blank, missing and with runs of spaces
DateText(y, m, d) == Pad4(y) \o <<"-">> \o Pad2(m) \o <<"-">> \o Pad2(d)

ReportDates ==
  {DateText(2025, 12, 31), DateText(2026, 1, 1), DateText(2026, 1, 2),
   DateText(2026, 1, 12), DateText(2026, 2, 30),
   <<" ">> \o DateText(2026, 1, 3) \o <<" ">>,
   DateText(2026, 1, 14) \o <<"T", "0", "8">>, D_SLASH, D_BAD, NULL}

JsonlRecord(date, category, summary_zh) ==
  [date |-> date, category |-> category, summary_zh |-> summary_zh,
   title |-> NULL, url |-> "", article_id |-> NoRow]

ReportRecords ==
  {JsonlRecord(d, CAT_EQUIP, <<"s">>) : d \in ReportDates}
    \cup {JsonlRecord(DateText(2026, 1, 2), c, <<"s">>) :
            c \in {<<"x">>, NULL, <<" ", "she", "ji", " ">>}}
    \cup {JsonlRecord(DateText(2026, 1, 2), CAT_EQUIP, t) :
            t \in {<<" ">>, NULL, <<"a", " ", " ", "b">>}}

Years == {2025, 2026}

InitReport ==
  /\ articles = EmptyTable
  /\ reviews = EmptyTable
  /\ llm_results = EmptyTable
  /\ ignored_urls = {}
  /\ clock = 1
  /\ fetch_run = RunIdle
  /\ llm_run = RunIdle
  /\ retry = RunIdle
  /\ \E records \in SeqsUpTo(ReportRecords, MaxRecords), year \in Years :
        last = [op |-> "records", records |-> records, year |-> year]

NextReport == ReportFromRecords

SpecReport == InitReport /\ [][NextReport]_vars

\* The report of the store: two articles, one of them undated, classified
\* or not, saved with and without a summary, approved or not
NextReportDb ==
  \/ Sync(BothUrls)
  \/ \E i \in ItemIds : Save(i, "save", FORM_PADDED)
  \/ \E i \in ItemIds : Save(i, "save_approve", FORM_PLAIN)
  \/ \E i \in ItemIds : Approve(i)
  \/ FetchSelect(MaxLimit)
  \/ \E pages \in {[k \in 1..n |-> PAGE_FULL] : n \in 1..MaxLimit} :
       FetchWrite(pages)
  \/ LlmSelect(MaxLimit, DefaultModel, TRUE)
  \/ \E scripts \in {[k \in 1..n |-> SCRIPT_GOOD] : n \in 1..MaxLimit} :
       LlmWrite(scripts)
  \/ \E year \in Years : ReportFromDb(year)

SpecReportDb == Init /\ [][NextReportDb]_vars

\* The review page of a list of items as the tests hand them over: one or
\* two items of a week, with or without summary, pending or reviewed, each
\* with no, one or two related articles
RelatedEntries ==
  {<<>>,
   <<[id |-> 8, summary |-> <<"r">>]>>,
   <<[id |-> 8, summary |-> <<"r">>], [id |-> 9, summary |-> <<"q">>]>>}

PageItem(id, summary, status, category, related) ==
  [id |-> id, date |-> DateText(2026, 1, 4 + id), week |-> 2, url |-> "u1",
   review_status |-> status, final_title |-> T_A,
   final_category |-> category, final_summary |-> summary,
   user_title |-> NULL, user_category |-> NULL, user_summary_zh |-> NULL,
   user_notes |-> NULL, llm_category |-> NULL, llm_summary |-> NULL,
   related |-> related]

PageItems(id) ==
  {PageItem(id, s, st, c, rel) :
     s \in {<<>>, <<"s">>},
     st \in {REVIEW_STATUS_PENDING, REVIEW_STATUS_REVIEWED},
     c \in {CAT_EQUIP, <<"x">>},
     rel \in RelatedEntries}

PageItemLists ==
  {<<a>> : a \in PageItems(1)}
    \cup {<<a, b>> : a \in PageItems(1), b \in PageItems(2)}

InitReviewPage ==
  /\ articles = EmptyTable
  /\ reviews = EmptyTable
  /\ llm_results = EmptyTable
  /\ ignored_urls = {}
  /\ clock = 1
  /\ fetch_run = RunIdle
  /\ llm_run = RunIdle
  /\ retry = RunIdle
  /\ \E items \in PageItemLists : last = [op |-> "review_items", items |-> items]

NextReviewPage == RenderReview

SpecReviewPage == InitReviewPage /\ [][NextReviewPage]_vars

\* The selections of the two stages over two articles whose dates are equal
\* or differ either way, each of them dated or not; every page loads and
\* every reply is valid
SelectItem(url, date) == [title |-> T_A, url |-> url, date |-> date]

SelectDates == {NULL, D_ISO, D_SLASH}

SelectBatches ==
  {<<SelectItem("u1", d1), SelectItem("u2", d2)>> :
     d1 \in SelectDates, d2 \in SelectDates}

NextSelect ==
  \/ \E items \in SelectBatches : Sync(items)
  \/ \E n \in Limits : FetchSelect(n)
  \/ \E pages \in {[k \in 1..n |-> PAGE_FULL] : n \in 1..MaxLimit} :
       FetchWrite(pages)
  \/ \E n \in Limits : LlmSelect(n, DefaultModel, TRUE)
  \/ \E scripts \in {[k \in 1..n |-> SCRIPT_GOOD] : n \in 1..MaxLimit} :
       LlmWrite(scripts)

SpecSelect == Init /\ [][NextSelect]_vars

\* The review page of the store next to its report: two articles, one of
\* them undated, classified or not, saved with and without a summary,
\* approved or not
PageYear == 2026

NextPages ==
  \/ Sync(BothUrls)
  \/ \E i \in ItemIds : Save(i, "save", FORM_PADDED)
  \/ \E i \in ItemIds : Save(i, "save_approve", FORM_PLAIN)
  \/ \E i \in ItemIds : Approve(i)
  \/ FetchSelect(MaxLimit)
  \/ \E pages \in {[k \in 1..n |-> PAGE_FULL] : n \in 1..MaxLimit} :
       FetchWrite(pages)
  \/ LlmSelect(MaxLimit, DefaultModel, TRUE)
  \/ \E scripts \in {[k \in 1..n |-> SCRIPT_GOOD] : n \in 1..MaxLimit} :
       LlmWrite(scripts)
  \/ ReviewPage(PageYear)

SpecPages == Init /\ [][NextPages]_vars

\* A reviewer who deletes while the stages run: two articles with body
\* content, classification runs whose replies are all valid, and a delete of
\* either article at any point
NextDeleteRace ==
  \/ Sync(BothUrls)
  \/ FetchSelect(MaxLimit)
  \/ \E pages \in {[k \in 1..n |-> PAGE_FULL] : n \in 1..MaxLimit} :
       FetchWrite(pages)
  \/ \E n \in Limits : LlmSelect(n, DefaultModel, TRUE)
  \/ \E scripts \in {[k \in 1..n |-> SCRIPT_GOOD] : n \in 1..MaxLimit} :
       LlmWrite(scripts)
  \/ \E i \in ItemIds : Delete(i)

SpecDeleteRace == Init /\ [][NextDeleteRace]_vars

\* Classification run after run over two articles: every request made for
\* the dated article u1 fails, every reply for the undated article u2 is
\* valid.  A run that has started comes to its end, and runs keep being
\* started.
SCRIPT_DEAD == <<REPLY_ERROR, REPLY_ERROR, REPLY_ERROR>>

ScriptOfUrl == [url \in Urls |-> IF url = "u1" THEN SCRIPT_DEAD ELSE SCRIPT_GOOD]

LlmRunStarts == \E n \in Limits : LlmSelect(n, DefaultModel, TRUE)

NextLlmRuns ==
  \/ Sync(BothUrls)
  \/ FetchSelect(MaxLimit)
  \/ \E pages \in {[k \in 1..n |-> PAGE_FULL] : n \in 1..MaxLimit} :
       FetchWrite(pages)
  \/ LlmRunStarts
  \/ LlmWriteFor(ScriptOfUrl)

SpecLlmRuns ==
  /\ Init
  /\ [][NextLlmRuns]_vars
  /\ WF_vars(LlmRunStarts)
  /\ WF_vars(LlmWriteFor(ScriptOfUrl))

\* The review page after sync passes over two URLs whose list cards show no
\* date, a date of the calendar, or a date that is well-formed and not of
\* the calendar
ListingBatches == Batches(NewsItems({T_A}, Urls, {NULL, D_ISO, D_NOCAL}))

NextListing ==
  \/ \E items \in ListingBatches : Sync(items)
  \/ ReviewPage(PageYear)

SpecListing == Init /\ [][NextListing]_vars

\* The report of records dated at both ends of a year: the first and the
\* last days of 2025, 2026 and 2027, whose ISO weeks belong to the year
\* itself or to the year next to it
EdgeDates ==
  {DateText(2025, 1, 2), DateText(2025, 12, 28), DateText(2025, 12, 31),
   DateText(2026, 1, 1), DateText(2026, 12, 31), DateText(2027, 1, 1)}

EdgeRecords == {JsonlRecord(d, CAT_EQUIP, <<"s">>) : d \in EdgeDates}

EdgeYears == {2025, 2026, 2027}

InitYearEdge ==
  /\ articles = EmptyTable
  /\ reviews = EmptyTable
  /\ llm_results = EmptyTable
  /\ ignored_urls = {}
  /\ clock = 1
  /\ fetch_run = RunIdle
  /\ llm_run = RunIdle
  /\ retry = RunIdle
  /\ \E records \in SeqsUpTo(EdgeRecords, MaxRecords), year \in EdgeYears :
        last = [op |-> "records", records |-> records, year |-> year]

NextYearEdge == ReportFromRecords

SpecYearEdge == InitYearEdge /\ [][NextYearEdge]_vars

----------------------------------------------------------------------------
(* Properties *)

\* the same article before and after a step: the row id names the same URL
SameArticle(i) ==
  /\ i \in DOMAIN articles /\ i \in DOMAIN articles'
  /\ articles'[i].url = articles[i].url

\* C1: once an Article's Review is 'reviewed', no step of the pipeline or of
\* the reviewer (Save, Approve, Save-and-approve, re-discovery upsert,
\* Backfill, Classification) on that Article returns its status to 'pending'
C1_StatusMonotonic ==
  [][\A i \in DOMAIN reviews :
       (reviews[i].review_status = REVIEW_STATUS_REVIEWED /\ SameArticle(i))
         => /\ i \in DOMAIN reviews'
            /\ reviews'[i].review_status = REVIEW_STATUS_REVIEWED]_vars

\* a reviewed article has just been re-discovered by a sync pass
C1_Witness ==
  /\ last.op = "sync" /\ last.updated_count > 0
  /\ \E i \in DOMAIN reviews :
       /\ reviews[i].review_status = REVIEW_STATUS_REVIEWED
       /\ articles[i].last_seen_at > reviews[i].reviewed_at

\* C2: the review Delete operation on an existing Article removes the
\* Article with its Review and its LLMResult, and adds the Article's URL to
\* the ignore-list
C2_DeleteCascades ==
  [][(last'.op = "delete" /\ last'.item_id \in DOMAIN articles)
       => /\ last'.item_id \notin DOMAIN articles'
          /\ last'.item_id \notin DOMAIN reviews'
          /\ last'.item_id \notin DOMAIN llm_results'
          /\ articles[last'.item_id].url \in ignored_urls']_vars

\* C3: after the reviewer's Delete of the Article with URL u, a sync pass
\* leaves no Article with URL u in the store
C3_DeletedStaysDeleted ==
  [][(last.op = "delete" /\ last.url # "" /\ last'.op = "sync")
       => \A i \in DOMAIN articles' : articles'[i].url # last.url]_vars

\* C4: a sync pass over the same items as the pass before it reports zero
\* new articles, creates no Article and no Review, and leaves every
\* Article's normalized date as it was
C4_UpsertIdempotent ==
  [][(last'.op = "sync" /\ last'.rerun)
       => /\ last'.new_count = 0
          /\ DOMAIN articles' = DOMAIN articles
          /\ DOMAIN reviews' = DOMAIN reviews
          /\ \A i \in DOMAIN articles :
               articles'[i].published_date = articles[i].published_date]_vars

\* a second pass over the same two URLs, at a later time, one of them dated
C4_Witness ==
  /\ last.op = "sync" /\ last.rerun
  /\ Len(last.items) = 2 /\ last.updated_count = 2
  /\ Cardinality(DOMAIN articles) = 2
  /\ \E i \in DOMAIN articles :
       /\ articles[i].published_date # NULL
       /\ articles[i].last_seen_at > articles[i].created_at

\* the raw dates a sync pass carries for the URL of article i all normalize
\* to nothing
NoDateFor(items, url) ==
  \A k \in DOMAIN items :
    items[k].url = url => NormalizedDate[items[k].date] = NULL

\* C5: an Article's normalized date, once non-empty, never becomes empty, and
\* a sync pass whose raw dates for the Article are missing or unparseable
\* keeps the previous normalized date
C5_DateNeverRegresses ==
  [][\A i \in DOMAIN articles :
       (Truthy(articles[i].published_date) /\ SameArticle(i))
         => /\ Truthy(articles'[i].published_date)
            /\ (last'.op = "sync" /\ NoDateFor(last'.items, articles[i].url))
                 => articles'[i].published_date
                      = articles[i].published_date]_vars

\* a dated article has just been upserted again with an unparseable raw date
C5_Witness ==
  /\ last.op = "sync"
  /\ \E i \in DOMAIN articles :
       /\ articles[i].published_date # NULL
       /\ articles[i].date_raw = D_BAD
       /\ NoDateFor(last.items, articles[i].url)
       /\ \E k \in DOMAIN last.items : last.items[k].url = articles[i].url

\* the columns of an articles row that a re-discovery must leave alone
EnrichmentOf(row) ==
  [source |-> row.source, url |-> row.url, author |-> row.author,
   content |-> row.content, content_fetched_at |-> row.content_fetched_at,
   created_at |-> row.created_at]

\* C6: a sync pass changes, of an Article that already exists, only the
\* title, the raw date, the normalized date and the updated / last-seen
\* timestamps: its content, author, content-fetched timestamp (and source,
\* URL, created-at), every LLMResult and its Review are as before
C6_UpsertFrame ==
  [][last'.op = "sync"
       => /\ \A i \in DOMAIN articles :
               /\ i \in DOMAIN articles'
               /\ EnrichmentOf(articles'[i]) = EnrichmentOf(articles[i])
               /\ i \in DOMAIN reviews
                    => (i \in DOMAIN reviews' /\ reviews'[i] = reviews[i])
          /\ llm_results' = llm_results]_vars

\* a fetched, classified, edited and reviewed article has just been
\* re-discovered with another raw date
C6_Witness ==
  /\ last.op = "sync" /\ last.updated_count > 0
  /\ \E i \in DOMAIN articles :
       /\ articles[i].content # NULL
       /\ articles[i].content_fetched_at # NullTs
       /\ articles[i].last_seen_at > articles[i].created_at
       /\ articles[i].date_raw = NULL /\ articles[i].published_date # NULL
       /\ i \in DOMAIN llm_results
       /\ reviews[i].review_status = REVIEW_STATUS_REVIEWED
       /\ reviews[i].user_category # NULL

UrlsOf(arts) == {arts[i].url : i \in DOMAIN arts}

BatchUrls(items) == {items[k].url : k \in DOMAIN items}

\* C7: a sync pass reports as new exactly the references whose URL was in no
\* Article when they were processed, so each URL of the batch that the store
\* did not hold counts new once and every other reference counts updated;
\* each new Article gets a pending Review; new + updated is the batch length
C7_SyncCounts ==
  [][last'.op = "sync"
       => /\ last'.new_count
               = Cardinality(BatchUrls(last'.items) \ UrlsOf(articles))
          /\ last'.new_count + last'.updated_count = Len(last'.items)
          /\ Cardinality(DOMAIN articles' \ DOMAIN articles)
               = last'.new_count
          /\ \A i \in DOMAIN articles' \ DOMAIN articles :
               /\ i \in DOMAIN reviews'
               /\ reviews'[i].review_status = REVIEW_STATUS_PENDING]_vars

\* a batch that names one new URL twice: new once, updated afterwards
C7_Witness ==
  /\ last.op = "sync" /\ Len(last.items) = 2
  /\ last.items[1].url = last.items[2].url
  /\ last.new_count = 1 /\ last.updated_count = 1
  /\ \E i \in DOMAIN articles :
       /\ articles[i].url = last.items[1].url
       /\ reviews[i].review_status = REVIEW_STATUS_PENDING

\* C8: a Review's reviewed-at, once set, is never changed or cleared by a
\* later Approve, Save-and-approve or Save (or any other step)
C8_ReviewedAtSetOnce ==
  [][\A i \in DOMAIN reviews :
       (reviews[i].reviewed_at # NullTs /\ SameArticle(i))
         => /\ i \in DOMAIN reviews'
            /\ reviews'[i].reviewed_at = reviews[i].reviewed_at]_vars

\* a review approved a second time, later than the first approval
C8_Witness ==
  /\ last.op \in {"approve", "save_approve"}
  /\ last.item_id \in DOMAIN reviews
  /\ reviews[last.item_id].reviewed_at # NullTs
  /\ reviews[last.item_id].updated_at > reviews[last.item_id].reviewed_at

OverridesOf(row) ==
  [user_title |-> row.user_title, user_category |-> row.user_category,
   user_summary_zh |-> row.user_summary_zh, user_notes |-> row.user_notes]

ApprovalOf(row) ==
  [review_status |-> row.review_status, reviewed_at |-> row.reviewed_at]

\* C9: Save changes only the four overrides and updated-at of the target
\* Review, Approve only its status, reviewed-at and updated-at; neither
\* changes an articles row, an LLMResult or another Article's Review, and
\* neither changes which Articles Backfill and Classification select
C9_ReviewFrame ==
  [][last'.op \in {"save", "approve"}
       => /\ articles' = articles
          /\ llm_results' = llm_results
          /\ DOMAIN reviews' = DOMAIN reviews
          /\ \A j \in DOMAIN reviews :
               IF j # last'.item_id THEN reviews'[j] = reviews[j]
               ELSE IF last'.op = "save"
                 THEN ApprovalOf(reviews'[j]) = ApprovalOf(reviews[j])
                 ELSE OverridesOf(reviews'[j]) = OverridesOf(reviews[j])
          /\ FetchEligible(articles') = FetchEligible(articles)
          /\ LlmEligible(articles', llm_results')
               = LlmEligible(articles, llm_results)]_vars

\* a Save has just changed the overrides of a reviewed, classified article
\* while the other article has a review with overrides of its own
C9_Witness ==
  /\ last.op = "save" /\ last.item_id \in DOMAIN reviews
  /\ reviews[last.item_id].review_status = REVIEW_STATUS_REVIEWED
  /\ reviews[last.item_id].user_category = CAT_DESIGN
  /\ reviews[last.item_id].updated_at > reviews[last.item_id].reviewed_at
  /\ last.item_id \in DOMAIN llm_results
  /\ \E j \in DOMAIN reviews :
       /\ j # last.item_id
       /\ reviews[j].user_category = CAT_OTHER
       /\ reviews[j].review_status = REVIEW_STATUS_REVIEWED

\* C10: every user category stored in a Review is one of the eight values
\* of the enumeration (a Review never saved holds none), and a Save or
\* Save-and-approve stores the stripped submitted value when it is in the
\* enumeration and the fallback category otherwise
C10_CategoryInEnumeration ==
  /\ \A i \in DOMAIN reviews :
       reviews[i].user_category \in CATEGORY_OPTIONS \cup {NULL}
  /\ (last.op \in SaveOps /\ last.item_id \in DOMAIN reviews)
       => LET stored == reviews[last.item_id].user_category
              submitted == Strip(last.form.user_category)
          IN /\ stored \in CATEGORY_OPTIONS
             /\ stored = IF submitted \in CATEGORY_OPTIONS THEN submitted
                         ELSE CAT_OTHER

\* a Save has just submitted a category outside the enumeration
C10_Witness ==
  /\ last.op \in SaveOps /\ last.item_id \in DOMAIN reviews
  /\ last.form = FORM_BOGUS
  /\ reviews[last.item_id].user_category = CAT_OTHER

FailedOps == {"sync_failed", "save_failed", "approve_failed"}

\* C11: a sync pass, Save, Approve, Save-and-approve or Delete in which a
\* statement fails leaves the store as it was (no prefix of the batch, no
\* overrides without the approval, no ignore-list entry without the
\* removal), and one in which none fails has applied all of its changes
C11_AllOrNothing ==
  [][/\ (last'.op \in FailedOps
          \/ (last'.op = "delete" /\ last'.outcome = "error"))
         => UNCHANGED <<articles, reviews, llm_results, ignored_urls>>
     /\ (last'.op = "save_approve" /\ last'.item_id \in DOMAIN reviews)
         => /\ reviews'[last'.item_id].review_status
                 = REVIEW_STATUS_REVIEWED
            /\ reviews'[last'.item_id].user_title
                 = Strip(last'.form.user_title)
     /\ last'.op = "sync"
         => BatchUrls(last'.items) \subseteq UrlsOf(articles')
     /\ last'.op = "delete"
         => (last'.url \in ignored_urls'
               <=> last'.url \notin UrlsOf(articles') /\ last'.url # "")
    ]_vars

\* a Save-and-approve whose second statement failed, on a review that is
\* still pending and has no overrides
C11_Witness ==
  /\ last.op = "save_failed" /\ last.action = "save_approve"
  /\ last.fail_at = 2
  /\ last.item_id \in DOMAIN reviews
  /\ reviews[last.item_id].review_status = REVIEW_STATUS_PENDING
  /\ reviews[last.item_id].user_title = NULL

\* the reply is a response (the request did not fail) that does not parse
\* or does not validate
BadResponse(reply) == reply # REPLY_ERROR /\ ParseAndValidate(reply) = INVALID

\* the reply gives no valid result: the request failed or the response is bad
NoResult(reply) == reply = REPLY_ERROR \/ BadResponse(reply)

\* C12: for each Article a Classification run attempts, one repair request
\* is issued exactly when the first response fails parsing or validation,
\* never a second one, and when the repaired response fails too the Article
\* has no LLMResult after the run
C12_OneRepair ==
  [][last'.op = "llm"
       => \A k \in DOMAIN last'.requests :
            /\ last'.requests[k]
                 = IF BadResponse(last'.scripts[k][1]) THEN 2 ELSE 1
            /\ (BadResponse(last'.scripts[k][1])
                 /\ NoResult(last'.scripts[k][2]))
                 => llm_run.rows[k].id \notin DOMAIN llm_results']_vars

\* a run has just met a first response without JSON and a repaired response
\* with a category outside the enumeration, where a third request would
\* have got a valid response
C12_Witness ==
  /\ last.op = "llm" /\ last.outcome = "error"
  /\ \E k \in DOMAIN last.requests :
       /\ last.scripts[k] = SCRIPT_TWICE_BAD
       /\ last.requests[k] = 2

\* C13: a Classification run in which one Article fails (the LLM call
\* exhausted its retries, or the response failed validation twice) still
\* stores the LLMResult of every other candidate of the run whose
\* classification succeeds, before and after the failing one
C13_FailureSkipsOnlyItem ==
  [][last'.op = "llm"
       => \A k \in DOMAIN llm_run.rows :
            (classify_and_summarize(last'.scripts[k]).kind = "ok"
             /\ llm_run.rows[k].id \in DOMAIN articles)
              => llm_run.rows[k].id \in DOMAIN llm_results']_vars

\* the calls made so far all failed
AllFailed(calls) == \A j \in DOMAIN calls : calls[j] = CALL_FAILED

\* C14: one request through the retry helper makes at most max_retries + 1
\* calls, returns the text of the first call that succeeds and makes no call
\* after it, raises only after max_retries + 1 failed calls in a row, and
\* always ends
C14_BoundedRetry ==
  /\ [](retry.pc # "idle" =>
          /\ Len(retry.calls) <= retry.max_retries + 1
          /\ retry.pc = "call" => AllFailed(retry.calls)
          /\ retry.pc = "returned" =>
                /\ retry.calls # <<>>
                /\ AllFailed(SubSeq(retry.calls, 1, Len(retry.calls) - 1))
                /\ retry.calls[Len(retry.calls)].kind = "completion"
                /\ retry.text =
                     ContentOrEmpty(retry.calls[Len(retry.calls)].content)
          /\ retry.pc = "raised" =>
                /\ Len(retry.calls) = retry.max_retries + 1
                /\ AllFailed(retry.calls))
  /\ (retry.pc = "call") ~> (retry.pc \in {"returned", "raised"})

\* a request that failed twice and then returned the third call's text
C14_Witness ==
  /\ retry.pc = "returned"
  /\ retry.max_retries = 2
  /\ Len(retry.calls) = 3
  /\ retry.text = <<"o", "k">>

\* the number of sentence terminators of s
TerminatorCount(s) == Cardinality({i \in DOMAIN s : s[i] \in Terminators})

\* C15: the summary of a validated object is a prefix of the
\* whitespace-normalized input summary with at most three sentence
\* terminators; it ends at the third terminator when the input has three or
\* more, and is the whole normalized summary otherwise
C15_SummaryCutAtThird ==
  (last.op = "validated" /\ last.result.kind = "ok") =>
    LET whole == _normalize_whitespace(PyStr(last.obj.summary_zh))
        got == last.result.summary
    IN /\ Len(got) <= Len(whole)
       /\ got = SubSeq(whole, 1, Len(got))
       /\ TerminatorCount(got) <= 3
       /\ TerminatorCount(whole) >= 3 =>
            /\ TerminatorCount(got) = 3
            /\ got[Len(got)] \in Terminators
       /\ TerminatorCount(whole) < 3 => got = whole

\* four sentences, cut after the third
C15_Witness ==
  /\ last.op = "validated"
  /\ last.obj.summary_zh = <<"x", "zh.", "zh?", "zh.", "x">>
  /\ last.result.kind = "ok"
  /\ last.result.summary = <<"x", "zh.", "zh?", "zh.">>

\* C16: validation fails when the trimmed category is not one of the eight
\* enumeration values or the summary is empty after whitespace
\* normalization, and otherwise succeeds and returns the trimmed category
C16_ValidationOutcome ==
  last.op = "validated" =>
    LET category == Strip(PyStr(last.obj.category))
        empty == _normalize_whitespace(PyStr(last.obj.summary_zh)) = <<>>
    IN IF category \notin CATEGORY_OPTIONS \/ empty
         THEN last.result = INVALID
         ELSE /\ last.result.kind = "ok"
              /\ last.result.category = category
              /\ category \in CATEGORY_OPTIONS

\* a padded enumeration category is accepted and returned trimmed
C16_Witness ==
  /\ last.op = "validated"
  /\ last.obj.category = <<" ", "she", "bei", NBSP>>
  /\ last.obj.summary_zh = <<"x", "zh.">>
  /\ last.result.kind = "ok"
  /\ last.result.category = CAT_EQUIP

\* C17: every stored LLM result has a category of the enumeration and a
\* non-empty summary, and is the result of an article whose body content is
\* non-empty (llm_results is keyed by article_id: one result per article)
C17_ResultsValid ==
  \A i \in DOMAIN llm_results :
    /\ llm_results[i].category \in CATEGORY_OPTIONS
    /\ llm_results[i].summary_zh # NULL
    /\ _normalize_whitespace(llm_results[i].summary_zh) # <<>>
    /\ i \in DOMAIN articles
    /\ Truthy(articles[i].content)

\* both articles classified, one of them through a repaired reply
C17_Witness ==
  /\ Cardinality(DOMAIN llm_results) = 2
  /\ \E i \in DOMAIN llm_results : llm_results[i].category = CAT_DESIGN
  /\ \E i \in DOMAIN llm_results : llm_results[i].category = CAT_EQUIP

\* C18: a classification run with the credential present leaves every
\* classified article with a result of the run's model: a run that ends
\* with nothing selected leaves no result of another model, and a run that
\* completes its loop has written, for each selected article, a result
\* carrying its model and the article's updated timestamp
C18_RerunReplacesResult ==
  [][/\ (last'.op = "llm_select" /\ last'.outcome = "none"
           /\ last'.has_key)
         => \A i \in DOMAIN llm_results' :
              llm_results'[i].model = last'.model
     /\ (last'.op = "llm" /\ last'.outcome = "ok")
         => \A k \in DOMAIN llm_run.rows :
              llm_run.rows[k].id \in DOMAIN llm_results' =>
                /\ llm_results'[llm_run.rows[k].id].model = llm_run.model
                /\ articles'[llm_run.rows[k].id].updated_at = llm_run.now
    ]_vars

\* C19: without the credential every classification run fails before it
\* processes an article, and writes no LLM result and changes no article
C19_MissingCredentialFails ==
  [][(last'.op = "llm_select" /\ ~last'.has_key)
       => /\ last'.outcome = "error"
          /\ llm_run' = RunIdle
          /\ UNCHANGED <<articles, llm_results>>]_vars

\* the article a selected item of the running backfill names
FetchedId(k) == ArticleIdByUrl(articles, fetch_run.items[k].url)

\* every selected article whose fetch gave a page has the page's author and
\* body and the run's timestamp
FetchedWritten ==
  \A k \in DOMAIN fetch_run.items :
    (last'.pages[k] # FETCH_FAILED /\ FetchedId(k) # NoRow) =>
      /\ articles'[FetchedId(k)].author = last'.pages[k].author
      /\ articles'[FetchedId(k)].content = last'.pages[k].content
      /\ articles'[FetchedId(k)].content_fetched_at = clock'
      /\ articles'[FetchedId(k)].content_fetched_at # NullTs

\* C20 (as stated): after a backfill run an article whose fetch failed has no
\* content and no content-fetched timestamp, and every other selected
\* article whose fetch succeeded has author, body and timestamp written
C20_FailedFetchNoTimestamp ==
  [][last'.op = "fetch" =>
       /\ \A k \in DOMAIN fetch_run.items :
            (last'.pages[k] = FETCH_FAILED /\ FetchedId(k) # NoRow) =>
              /\ ~Truthy(articles'[FetchedId(k)].content)
              /\ articles'[FetchedId(k)].content_fetched_at = NullTs
       /\ FetchedWritten]_vars

\* C20 (amended): a backfill run leaves the row of an article whose fetch
\* failed exactly as it was, without content, and every other selected
\* article whose fetch succeeded has author, body and timestamp written
C20_FailedFetchLeavesRow ==
  [][last'.op = "fetch" =>
       /\ \A k \in DOMAIN fetch_run.items :
            (last'.pages[k] = FETCH_FAILED /\ FetchedId(k) # NoRow) =>
              /\ articles'[FetchedId(k)] = articles[FetchedId(k)]
              /\ ~Truthy(articles'[FetchedId(k)].content)
       /\ FetchedWritten]_vars

\* a run in which the first fetch failed and the second was written
C20_Witness ==
  /\ last.op = "fetch"
  /\ last.pages = <<FETCH_FAILED, PAGE_FULL>>
  /\ last.updated = 1
  /\ \E i \in DOMAIN articles : articles[i].content = NULL
  /\ \E i \in DOMAIN articles :
       articles[i].content = PAGE_FULL.content
       /\ articles[i].content_fetched_at = clock

\* C21: a backfill that succeeds for an article stores the extracted title
\* when it is a non-empty text, and keeps the article's prior title when the
\* page gave no title or an empty one
C21_TitleKeptUnlessExtracted ==
  [][last'.op = "fetch" =>
       \A k \in DOMAIN fetch_run.items :
         (last'.pages[k] # FETCH_FAILED /\ FetchedId(k) # NoRow) =>
           articles'[FetchedId(k)].title =
             IF last'.pages[k].title \notin {NULL, <<>>}
               THEN last'.pages[k].title
               ELSE articles[FetchedId(k)].title]_vars

\* a run that stored one extracted title and kept one prior title
C21_Witness ==
  /\ last.op = "fetch"
  /\ last.pages = <<PAGE_FULL, PAGE_BARE>>
  /\ \E i \in DOMAIN articles :
       articles[i].title = T_B /\ articles[i].content = PAGE_FULL.content
  /\ \E i \in DOMAIN articles :
       articles[i].title = T_A /\ articles[i].content = PAGE_BARE.content

C29_NoSilentFailure ==
  [][/\ (last'.op \in {"save", "save_approve", "approve"}
           /\ last'.item_id \notin DOMAIN reviews')
         => last'.outcome = "error"
     /\ (last'.op = "delete" /\ last'.item_id \in DOMAIN articles')
         => last'.outcome = "error"]_vars

\* s is YYYY a MM b DD, and then the end mark when one is asked for
ShapedDate(s, a, b, endc) ==
  /\ Len(s) = IF endc = {} THEN 10 ELSE 11
  /\ \A k \in {1, 2, 3, 4, 6, 7, 9, 10} : s[k] \in Digits
  /\ s[5] = a
  /\ s[8] = b
  /\ endc = {} \/ s[11] \in endc

\* one of the three accepted forms
AcceptedForm(s) ==
  \/ ShapedDate(s, "-", "-", {})
  \/ ShapedDate(s, "/", "/", {})
  \/ ShapedDate(s, "nian", "yue", {"ri"})

\* one of the three forms, with months and days of one or two digits, lies
\* somewhere in s
HoldsAcceptedForm(s) ==
  \/ DateSearch(s, {"-"}, {"-"}, {}) # <<>>
  \/ DateSearch(s, {"/"}, {"/"}, {}) # <<>>
  \/ DateSearch(s, {"nian"}, {"yue"}, {"ri"}) # <<>>

\* C30: a raw date of the form YYYY-MM-DD, YYYY/MM/DD or YYYY(nian)MM(yue)
\* DD(ri) normalizes to YYYY-MM-DD, and a raw date that holds none of the
\* three forms (missing, empty, mixed separators, other text) has no
\* normalized date
C30_OnlyThreeForms ==
  last.op = "normalized" =>
    LET text == IF last.value = NULL THEN <<>> ELSE Strip(last.value)
    IN /\ AcceptedForm(text) =>
            last.result = SubSeq(text, 1, 4) \o <<"-">> \o SubSeq(text, 6, 7)
                            \o <<"-">> \o SubSeq(text, 9, 10)
       /\ ~HoldsAcceptedForm(text) => last.result = NULL

\* the date of a record parses as a calendar date of the year, and its
\* summary is a text that is not blank
KeepsRecord(obj, year) ==
  /\ _parse_iso_date(obj.date) # NULL
  /\ _parse_iso_date(obj.date)[1] = year
  /\ obj.summary_zh # NULL
  /\ \E k \in DOMAIN obj.summary_zh : obj.summary_zh[k] \notin Whitespace

\* the category a record is filed under
FiledUnder(obj) ==
  IF obj.category # NULL /\ Strip(obj.category) \in CATEGORY_OPTIONS
    THEN Strip(obj.category) ELSE CAT_OTHER

\* the (category, week) buckets of an index, and the number of items in them
BucketsOf(grouped) ==
  {cw \in (DOMAIN grouped) \X (1..53) : cw[2] \in DOMAIN grouped[cw[1]]}

RECURSIVE BucketSizes(_, _)
BucketSizes(grouped, buckets) ==
  IF buckets = {} THEN 0
  ELSE LET b == CHOOSE x \in buckets : TRUE
       IN Len(grouped[b[1]][b[2]]) + BucketSizes(grouped, buckets \ {b})

\* C23: the index keeps the records whose date is a calendar date of the
\* year and whose summary is not blank, each in the one bucket of its
\* category (the fallback category when it is not in the enumeration) and
\* its ISO week, and the total is the number of kept records
C23_IndexKeepsAndFiles ==
  last.op = "report" =>
    LET kept == {k \in DOMAIN last.records :
                   KeepsRecord(last.records[k], last.year)}
        filed(c, w) == {k \in kept :
                          /\ FiledUnder(last.records[k]) = c
                          /\ IsoWeek(_parse_iso_date(last.records[k].date)) = w}
    IN /\ last.total = Cardinality(kept)
       /\ BucketSizes(last.grouped, BucketsOf(last.grouped)) = last.total
       /\ DOMAIN last.grouped \subseteq CATEGORY_OPTIONS
       /\ \A b \in BucketsOf(last.grouped) :
            /\ Len(last.grouped[b[1]][b[2]]) = Cardinality(filed(b[1], b[2]))
            /\ \A j \in DOMAIN last.grouped[b[1]][b[2]] :
                 /\ last.grouped[b[1]][b[2]][j].category = b[1]
                 /\ last.grouped[b[1]][b[2]][j].week = b[2]
       /\ \A k \in kept :
            <<FiledUnder(last.records[k]),
              IsoWeek(_parse_iso_date(last.records[k].date))>>
              \in BucketsOf(last.grouped)

\* three records of which the one of another year is dropped and the one of
\* an unknown category is filed under the fallback category
C23_Witness ==
  /\ last.op = "report"
  /\ last.year = 2026
  /\ Len(last.records) = 3
  /\ last.total = 2
  /\ \E k \in DOMAIN last.records :
       last.records[k].date = DateText(2025, 12, 31)
  /\ \E k \in DOMAIN last.records : last.records[k].category = <<"x">>
  /\ DOMAIN last.grouped = {CAT_EQUIP, CAT_OTHER}

\* C24: in the rendered report the weeks of every category are in strictly
\* descending week number and the items of every week in non-increasing
\* date, whatever the order of the records; every kept record is rendered
C24_WeeksAndItemsDescending ==
  last.op = "report" =>
    /\ \A s \in DOMAIN last.html :
         LET weeks == last.html[s].weeks
         IN /\ \A k \in 1..(Len(weeks) - 1) :
                 weeks[k].week > weeks[k + 1].week
            /\ \A k \in DOMAIN weeks :
                 /\ Len(weeks[k].items)
                      = Len(last.grouped[last.html[s].category][weeks[k].week])
                 /\ \A j \in 1..(Len(weeks[k].items) - 1) :
                      ~DateBefore(weeks[k].items[j].date,
                                  weeks[k].items[j + 1].date)
    /\ {last.html[s].category : s \in DOMAIN last.html} = DOMAIN last.grouped

\* records given oldest first: two of week 1 and one of week 3
C24_Witness ==
  /\ last.op = "report"
  /\ last.year = 2026
  /\ last.records =
       <<JsonlRecord(DateText(2026, 1, 1), CAT_EQUIP, <<"s">>),
         JsonlRecord(DateText(2026, 1, 2), CAT_EQUIP, <<"s">>),
         JsonlRecord(DateText(2026, 1, 12), CAT_EQUIP, <<"s">>)>>
  /\ Len(last.html) = 1
  /\ Len(last.html[1].weeks) = 2
  /\ last.html[1].weeks[1].week = 3
  /\ last.html[1].weeks[2].items[1].date = <<2026, 1, 2>>

Effective(override, fallback) ==
  IF override \notin {NULL, <<>>} THEN override ELSE fallback

\* C25: every item of the report from the store carries the effective title,
\* category and summary of its article: the override of the review when
\* there is one, else the scraped title, the category and the summary of the
\* LLM result, else the fallback category and an empty summary
C25_EffectiveValues ==
  last.op = "report_db" =>
    \A k \in DOMAIN last.records :
      LET i == last.records[k].article_id
          llm_category ==
            IF i \in DOMAIN llm_results
              THEN Effective(llm_results[i].category, CAT_OTHER)
            ELSE CAT_OTHER
          llm_summary ==
            IF i \in DOMAIN llm_results
              THEN Effective(llm_results[i].summary_zh, <<>>)
            ELSE <<>>
      IN /\ last.records[k].title
              = Effective(reviews[i].user_title, articles[i].title)
         /\ last.records[k].category
              = Effective(reviews[i].user_category, llm_category)
         /\ last.records[k].summary_zh
              = Effective(reviews[i].user_summary_zh, llm_summary)

\* the links of the report of a year that start at an article
LinksFrom(i, year) ==
  {link \in ArticleLinkRows :
     /\ link.from_article_id = i
     /\ i \in DOMAIN articles
     /\ link.to_article_id \in DOMAIN articles
     /\ DateInYear(articles[i].published_date, year)}

\* the items of a rendered report, section after section, week after week
RenderedItems(html) ==
  UNION {UNION {{html[s].weeks[w].items[j] :
                   j \in DOMAIN html[s].weeks[w].items} :
                  w \in DOMAIN html[s].weeks} : s \in DOMAIN html}

\* C26: a report of a year is produced, and the related list of each of its
\* items holds exactly the targets of the links that start at the item's
\* article, dated in the year, each with its effective summary and its ISO
\* week, the later target first
C26_RelatedLists ==
  last.op = "report_db" =>
    /\ last.outcome = "ok"
    /\ \A item \in RenderedItems(last.html) :
         /\ {item.related[k].article_id : k \in DOMAIN item.related}
              = {link.to_article_id :
                   link \in LinksFrom(item.article_id, last.year)}
         /\ Len(item.related)
              = Cardinality(LinksFrom(item.article_id, last.year))
         /\ \A k \in DOMAIN item.related :
              LET to == item.related[k].article_id
              IN /\ item.related[k].summary
                      = _normalize_whitespace(
                          Effective(IF to \in DOMAIN reviews
                                      THEN reviews[to].user_summary_zh
                                    ELSE NULL,
                                    IF to \in DOMAIN llm_results
                                      THEN llm_results[to].summary_zh
                                    ELSE <<>>))
                 /\ articles[to].published_date # NULL
                      => item.related[k].week
                           = IsoWeek(_parse_iso_date(
                                       articles[to].published_date))
         /\ \A k \in 1..(Len(item.related) - 1) :
              ~TextLess(DateKey(articles[item.related[k].article_id]),
                        DateKey(articles[item.related[k + 1].article_id]))

\* C27: a report is produced from the store, and a reviewed article that an
\* included article links to is in the related list of that article and is
\* no item of its own
C27_RelatedRenderedOnce ==
  last.op = "report_db" =>
    /\ last.outcome = "ok"
    /\ \A item \in RenderedItems(last.html) :
         \A link \in LinksFrom(item.article_id, last.year) :
           (/\ link.to_article_id \in DOMAIN reviews
            /\ reviews[link.to_article_id].review_status
                 = REVIEW_STATUS_REVIEWED)
             => /\ Cardinality({k \in DOMAIN item.related :
                                  item.related[k].article_id
                                    = link.to_article_id}) = 1
                /\ \A other \in RenderedItems(last.html) :
                     other.article_id # link.to_article_id

\* the characters of a text that are no whitespace and no line break
RECURSIVE Letters(_)
Letters(s) ==
  IF s = <<>> THEN <<>>
  ELSE (IF Head(s) \in Whitespace \cup {"\r"} THEN <<>> ELSE <<Head(s)>>)
         \o Letters(Tail(s))

\* no line of the text is empty or all whitespace: the text does not start
\* with a line break and between two line breaks there is a character that
\* is no whitespace (a text may end with a line break)
NoBlankLines(s) ==
  /\ s # <<>> => s[1] \notin Whitespace
  /\ \A i, j \in DOMAIN s :
       (i < j /\ s[i] = "\n" /\ s[j] = "\n")
         => \E k \in (i + 1)..(j - 1) : s[k] \notin Whitespace
  /\ \A k \in DOMAIN s : s[k] # "\r"

\* C31: the excerpt has no blank lines and at most max_chars characters; it
\* has exactly max_chars characters when the cleaned content is longer than
\* the budget and is the cleaned content otherwise; the cleaned content
\* holds the letters of the content, in order, and no blank line
C31_ExcerptWithinBudget ==
  last.op = "excerpt" =>
    \E cleaned \in {build_content_excerpt(last.content, Len(last.content))} :
      /\ NoBlankLines(cleaned)
      /\ Letters(cleaned) = Letters(last.content)
      /\ cleaned = Strip(cleaned)
      /\ NoBlankLines(last.result)
      /\ Len(last.result) <= last.max_chars
      /\ Len(cleaned) > last.max_chars
           => /\ Len(last.result) = last.max_chars
              /\ last.result = SubSeq(cleaned, 1, last.max_chars)
      /\ Len(cleaned) <= last.max_chars => last.result = cleaned

\* a content with a blank line between two lines, longer than the budget
\* once cleaned
C31_Witness ==
  /\ last.op = "excerpt"
  /\ last.content = <<"a", "\r", " ", "\n", "a">>
  /\ last.max_chars = 2
  /\ last.result = <<"a", "\n">>

\* the text has an opening brace with a closing brace after it
HasBraces(text) ==
  \E i, j \in DOMAIN text : i < j /\ text[i] = "{" /\ text[j] = "}"

\* the part of the text from its first opening brace to its last closing one
BraceSpan(text) ==
  SubSeq(text, FindFirst(text, "{"), FindLast(text, "}"))

\* C32: the parse gives the object that spans from the first opening brace
\* of the text to its last closing brace and fails when there is no opening
\* brace with a closing brace after it
C32_ParseTakesBraceSpan ==
  last.op = "parsed" =>
    /\ HasBraces(last.text) => last.result = json_loads(BraceSpan(last.text))
    /\ ~HasBraces(last.text) => last.result = NO_JSON

\* C32: the parse of a text inside a Markdown code fence gives what the
\* parse of the text gives
C32_FenceMakesNoDifference ==
  last.op = "parsed" => last.result = parse_llm_json_object(last.inner)

\* C32: both parts
C32_ParseAndFence == C32_ParseTakesBraceSpan /\ C32_FenceMakesNoDifference

\* the items of a rendered page, whatever their section and week
PageItemsOf(page) ==
  {page[c].weeks[w].items[k] :
     <<c, w, k>> \in {t \in (DOMAIN page) \X (1..4) \X (1..4) :
                        /\ t[2] \in DOMAIN page[t[1]].weeks
                        /\ t[3] \in DOMAIN page[t[1]].weeks[t[2]].items}}

\* every text the page shows for an item
ShownTexts(rendered) ==
  {rendered.summary, rendered.date, rendered.category, rendered.form_title,
   rendered.form_category, rendered.form_summary, rendered.form_notes,
   rendered.llm_category, rendered.llm_summary}

\* C33: the review page shows, under every item that has related articles,
\* the summary of each of its related articles.
C33_RelatedOnReviewPage ==
  last.op = "review_render" =>
    \A k \in DOMAIN last.items :
      \A r \in DOMAIN last.items[k].related :
        \E rendered \in PageItemsOf(last.page) :
          /\ rendered.id = last.items[k].id
          /\ last.items[k].related[r].summary \in ShownTexts(rendered)

\* the date a stored published_date text names, as <<year, month, day>>
StoredDate(text) == <<NumAt(text, 1, 4), NumAt(text, 6, 2), NumAt(text, 9, 2)>>

\* article i is more recent than article j: a dated article before an
\* undated one, the later date first, the greater id first on a tie
MoreRecent(arts, i, j) ==
  LET di == arts[i].published_date
      dj == arts[j].published_date
  IN \/ di # NULL /\ dj = NULL
     \/ di # NULL /\ dj # NULL /\ DateBefore(StoredDate(dj), StoredDate(di))
     \/ di = dj /\ i > j

\* sel is the n most recent articles of eligible, most recent first
MostRecentOf(arts, sel, eligible, n) ==
  /\ Len(sel) = (IF Cardinality(eligible) < n THEN Cardinality(eligible) ELSE n)
  /\ \A k \in DOMAIN sel : sel[k] \in eligible
  /\ \A k, l \in DOMAIN sel : k < l => MoreRecent(arts, sel[k], sel[l])
  /\ \A i \in eligible \ {sel[k] : k \in DOMAIN sel} :
       \A k \in DOMAIN sel : ~MoreRecent(arts, i, sel[k])

\* the ids of the articles a backfill run has selected
FetchRunIds(run, arts) ==
  IF run.pc = "fetching"
    THEN [k \in DOMAIN run.items |-> ArticleIdByUrl(arts, run.items[k].url)]
  ELSE <<>>

\* the ids of the articles a classification run has selected
LlmRunIds(run) ==
  IF run.pc = "processing" THEN [k \in DOMAIN run.rows |-> run.rows[k].id]
  ELSE <<>>

\* C34: the backfill selects the N most recent of the articles without body,
\* and the classification the N most recent of the articles with a body and
\* no LLM result; most recent means the later normalized date, then the
\* greater id, with undated articles after all dated ones.
C34_SelectsMostRecent ==
  [][/\ \A n \in Limits :
          FetchSelect(n) =>
            MostRecentOf(articles, FetchRunIds(fetch_run', articles),
                         FetchEligible(articles), n)
     /\ \A n \in Limits :
          LlmSelect(n, DefaultModel, TRUE) =>
            MostRecentOf(articles, LlmRunIds(llm_run'),
                         LlmEligible(articles, llm_results), n)]_vars

\* a backfill of one has taken the later of two articles of one date and
\* left the earlier one
C34_Witness ==
  /\ last.op = "fetch_select"
  /\ FetchRunIds(fetch_run, articles) = <<2>>
  /\ articles[1].published_date = articles[2].published_date
  /\ articles[1].published_date # NULL
  /\ 1 \in FetchEligible(articles)

\* 2^k by doubling
RECURSIVE Doubled(_)
Doubled(k) == IF k = 0 THEN 1 ELSE 2 * Doubled(k - 1)

\* the calls of a request that failed
FailedCalls(r) == {k \in DOMAIN r.calls : r.calls[k] = CALL_FAILED}

\* C35: the retry helper sleeps once after every failed call that is
\* followed by another call, and never after the last failed call or after a
\* success; the base delay after failed attempt k (from 0) is min(8, 2^k)
\* seconds, so the delays never decrease and never exceed 8.
C35_SleepsBetweenCalls ==
  retry.pc \in {"call", "returned", "raised"} =>
    /\ retry.pc = "call" =>
         FailedCalls(retry) = DOMAIN retry.calls
           /\ Len(retry.slept) = Len(retry.calls)
    /\ retry.pc = "returned" =>
         FailedCalls(retry) = DOMAIN retry.calls \ {Len(retry.calls)}
           /\ Len(retry.slept) = Len(retry.calls) - 1
    /\ retry.pc = "raised" =>
         FailedCalls(retry) = DOMAIN retry.calls
           /\ Len(retry.calls) = retry.max_retries + 1
           /\ Len(retry.slept) = Len(retry.calls) - 1
    /\ \A k \in DOMAIN retry.slept :
         /\ retry.slept[k] =
              (IF Doubled(k - 1) < 8 THEN Doubled(k - 1) ELSE 8)
         /\ retry.slept[k] <= 8
         /\ k > 1 => retry.slept[k - 1] <= retry.slept[k]

\* a request with five retries has failed six times and slept 1, 2, 4, 8 and
\* 8 seconds between the calls
C35_Witness ==
  /\ retry.pc = "raised"
  /\ retry.max_retries = 5
  /\ retry.slept = <<1, 2, 4, 8, 8>>

\* the ids of the rows the report reads from the store
ReportedIds(db) ==
  {read_db_records(db)[k].article_id : k \in DOMAIN read_db_records(db)}

\* C36: for every article on the review page, the page and the report
\* builder resolve the same effective summary and the same effective
\* category, and an article the page shows as reviewed with a non-empty
\* summary is among the rows the report reads.
C36_PageAndReportAgree ==
  (last.op = "review_page" /\ last.outcome = "ok") =>
    \A k \in DOMAIN last.items :
      LET item == last.items[k]
          summary == ReportSummary(Store, item.id)
      IN /\ item.final_summary = (IF summary = NULL THEN <<>> ELSE summary)
         /\ item.final_category = ReportCategory(Store, item.id)
         /\ (item.review_status = REVIEW_STATUS_REVIEWED
               /\ item.final_summary # <<>>) =>
              item.id \in ReportedIds(Store)

\* C38: when the reviewer's delete of a candidate article comes between the
\* selection of a classification run and its writes, the run stores the LLM
\* results of the other candidates and none for the deleted article.
C38_DeleteDuringClassification ==
  [][(/\ llm_run.pc = "processing"
      /\ last.op = "delete"
      /\ \E k \in DOMAIN llm_run.rows : llm_run.rows[k].id = last.item_id
      /\ last'.op = "llm")
       => /\ last.item_id \notin DOMAIN llm_results'
          /\ \A k \in DOMAIN llm_run.rows :
               llm_run.rows[k].id # last.item_id =>
                 llm_run.rows[k].id \in DOMAIN llm_results']_vars

\* article i is eligible for classification and the LLM answers it validly
ValidCandidate(i) ==
  /\ i \in LlmEligible(articles, llm_results)
  /\ classify_and_summarize(ScriptOfUrl[articles[i].url]).kind # "raised"

\* C37: under repeated classification runs every eligible article for which
\* the LLM returns a valid response is eventually classified, whatever
\* happens to an article whose classification fails every time.
C37_ValidCandidatesGetClassified ==
  \A i \in 1..MaxBatch :
    ValidCandidate(i) ~> (i \in DOMAIN llm_results)

\* C39: every normalized date the sync pass stores is a day of the
\* calendar, and the review page of a year, which parses the stored date of
\* every article it lists, never fails.
C39_StoredDatesParse ==
  /\ \A i \in DOMAIN articles :
       articles[i].published_date # NULL =>
         fromisoformat(articles[i].published_date) # NULL
  /\ last.op = "review_page" => last.outcome = "ok"

\* the ordinal of the Monday of the week a date lies in
MondayOf(g) == Ordinal(g) - IsoWeekday(g) + 1

\* C40: in the report of a year all items of one (category, week) bucket
\* have dates of one Monday-to-Sunday span; the first days of January and
\* the last days of December whose ISO week belongs to the adjacent year are
\* not put into one bucket with dates from the other end of the year.
C40_BucketIsOneWeek ==
  last.op = "report" =>
    \A c \in DOMAIN last.grouped :
      \A w \in DOMAIN last.grouped[c] :
        \A k, l \in DOMAIN last.grouped[c][w] :
          MondayOf(last.grouped[c][w][k].date)
            = MondayOf(last.grouped[c][w][l].date)

====
